---- MODULE Spec2Model ----
(***************************************************************************)
(* A model of the statement parsers (delimited rows and rendered-document *)
(* lines), merchant resolver, classifier, statement merger and             *)
(* subscription detector of the private finance pal.                       *)
(*                                                                         *)
(* Conventions of the model                                                *)
(*   - JavaScript strings are TLA+ strings; charAt/substring/includes are  *)
(*     written with Len, SubSeq and \o.  The only white-space character    *)
(*     of the modelled inputs is the blank " ".                            *)
(*   - Money is an integer number of hundredths (1250 is 12.50).           *)
(*   - A confidence is an integer number of hundredths (95 is 0.95).       *)
(*   - NULL stands for JavaScript null / undefined.                        *)
(***************************************************************************)
EXTENDS Integers, Sequences, FiniteSets, TLC

VARIABLES
    \* --- merchant resolution (getCanonicalName applied once and twice)
    mRaw,          \* the raw merchant string handed to the resolver
    mOnce,         \* getCanonicalName(mRaw), NULL before the call
    mTwice,        \* getCanonicalName(mOnce), NULL before the call
    \* --- classification (categorizeTransaction and checkEdgeCases on one transaction)
    cTxn,          \* the transaction handed to the classifier
    cResult,       \* what categorizeTransaction returned, NotCalled before the call
    cStages,       \* the stages categorizeTransaction ran, in order
    cEdge,         \* what checkEdgeCases returned, NotCalled before the call
    \* --- correction propagation (applyCorrectionToSimilar)
    correctedTransaction,  \* the transaction the user corrected
    allTransactions,       \* the list handed to applyCorrectionToSimilar
    updated,               \* the list it returned, NotCalled before the call
    \* --- date routines (parseDate and parseFlexibleDate on one date string)
    dDay,          \* the calendar day <<year, month, day>> the statement line is about
    dDateStr,      \* the spelling of that day in the statement
    dTz,           \* the local time zone of the process, in minutes east of UTC
    dNow,          \* the time of the call
    dParsed,       \* what parseDate returned or threw, NotCalled before the call
    dFlexible,     \* what parseFlexibleDate returned or threw, NotCalled before the call
    \* --- statement merging (mergeStatements)
    statements,    \* the parsed statements handed to mergeStatements
    merged,        \* the statement it returned, NotCalled before the call
    \* --- subscription detection (detectSubscriptions)
    sTransactions, \* the transactions handed to detectSubscriptions
    sNow,          \* the time of the call
    sTz,           \* the local time zone of the process, in minutes east of UTC
    sSubscriptions,\* the list it returned, NotCalled before the call
    \* --- delimited files (parseCSVRows and parseCSVRow)
    csvHeaders,    \* the column headers of the file, Object.keys(rows[0])
    csvRows,       \* the data rows: each the cells of one row, in the order of the headers
    csvTz,         \* the local time zone of the process, in minutes east of UTC
    csvRow,        \* what parseCSVRow returned for one row, NotCalled before the call
    csvTransactions, \* what parseCSVRows returned, NotCalled before the call
    csvWarnings,   \* the warnings parseCSVRows logged with console.warn, in order
    \* --- rendered-document lines (parseGenericTransactionLine on one line)
    gLine,         \* the line handed to parseGenericTransactionLine
    gTz,           \* the local time zone of the process, in minutes east of UTC
    gNow,          \* the time of the call
    gTransaction,  \* what it returned, NotCalled before the call
    gWarnings,     \* the warnings it logged with console.warn, in order
    \* --- the life of a transaction list (categorizeTransactions, corrections, confirmations)
    ledger,        \* the transactions of the loaded statement, as the application holds them
    ledgerCalls,   \* the number of calls made on the list so far
    \* --- merchant name cleaning (cleanMerchantName applied once and twice)
    kRaw,          \* the raw merchant string handed to cleanMerchantName
    kOnce,         \* cleanMerchantName(kRaw), NULL before the call
    kTwice,        \* cleanMerchantName(kOnce), NULL before the call
    \* --- column detection (detectColumnMapping on the headers of one file)
    hHeaders,      \* the column headers handed to detectColumnMapping
    hMapping,      \* the mapping it returned, NotCalled before the call
    \* --- table boundaries (findTransactionTableBoundaries on the lines of one page)
    tLines,        \* the lines of the page
    tBoundaries,   \* what findTransactionTableBoundaries returned, NotCalled before the call
    \* --- rendered documents (parsePDF, parseHSBCFormat and parseGenericFormat on one file)
    pdfFile,       \* the file: whether its text can be extracted, and its pages
    pdfTz,         \* the local time zone of the process, in minutes east of UTC
    pdfNow,        \* the time of the call
    pdfStatement,  \* what parsePDF returned or threw, NotCalled before the call
    pdfHsbc,       \* what parseHSBCFormat returned, NotCalled before the call
    pdfGeneric,    \* what parseGenericFormat returned, NotCalled before the call
    \* --- price changes (detectPriceChanges on one Subscription)
    pSubscription, \* the Subscription handed to detectPriceChanges
    pChange,       \* what detectPriceChanges returned, NotCalled before the call
    \* --- batch classification (one call of categorizeTransactions, round by round)
    batchInput,    \* the transactions array handed to categorizeTransactions
    batchCallback, \* whether an onProgress callback was handed in
    batchCategorized,\* the categorized array built so far
    batchIndex,    \* the loop variable i
    batchProgress, \* the calls of onProgress so far: <<current, total>>
    batchPc,       \* where the call stands: "try", "progress", "returned", or "idle"
    \* --- resolution of one row's merchant string (parseCSVRow, then categorizeTransaction)
    rRaw,          \* the raw merchant string of the row (its description cell)
    rCanonical,    \* what getCanonicalName made of it, NULL before the call
    rMetadata,     \* what lookupMerchant returned for it
    rCategorized,  \* what categorizeTransaction returned for the row's transaction
    \* --- chat store (useFinanceStore) and the page's handlers
    storeTransactions,\* the store's transactions
    storeMessages, \* the store's messages, each [role, content]
    storeIsLoaded, \* the store's isLoaded
    storeTimers    \* the replies whose 300 ms timer is running, oldest first

NULL == "<null>"

\* F applied to the value of v: v is evaluated once, however often F uses it
Let(v, F(_)) == CHOOSE r \in {F(x) : x \in {v}} : TRUE

\* the value of a result variable before its function has been called
NotCalled == [called |-> FALSE]

\* the value of a result variable after its function returned v
Returned(v) == [called |-> TRUE, ok |-> TRUE, value |-> v]

\* the value of a result variable after its function threw an Error with message e
Threw(e) == [called |-> TRUE, ok |-> FALSE, value |-> e]

\* the value of a transaction variable that holds no transaction
NoTransaction == [id |-> NULL]

merchantVars == <<mRaw, mOnce, mTwice>>
classifyVars == <<cTxn, cResult, cStages, cEdge>>
correctVars  == <<correctedTransaction, allTransactions, updated>>
dateVars     == <<dDay, dDateStr, dTz, dNow, dParsed, dFlexible>>
mergeVars    == <<statements, merged>>
subsVars     == <<sTransactions, sNow, sTz, sSubscriptions>>
csvVars      == <<csvHeaders, csvRows, csvTz, csvRow, csvTransactions, csvWarnings>>
lineVars     == <<gLine, gTz, gNow, gTransaction, gWarnings>>
ledgerVars   == <<ledger, ledgerCalls>>

cleanVars == <<kRaw, kOnce, kTwice>>

mappingVars == <<hHeaders, hMapping>>

tableVars == <<tLines, tBoundaries>>

pdfVars == <<pdfFile, pdfTz, pdfNow, pdfStatement, pdfHsbc, pdfGeneric>>

priceVars == <<pSubscription, pChange>>

batchVars == <<batchInput, batchCallback, batchCategorized, batchIndex, batchProgress, batchPc>>

resolveVars == <<rRaw, rCanonical, rMetadata, rCategorized>>

storeVars == <<storeTransactions, storeMessages, storeIsLoaded, storeTimers>>

vars == <<merchantVars, classifyVars, correctVars, dateVars, mergeVars, subsVars,
          csvVars, lineVars, ledgerVars, cleanVars, mappingVars, tableVars,
          pdfVars, priceVars, batchVars, resolveVars, storeVars>>

\* each part of the program is exercised on its own: the variables of the other parts
\* keep their initial values
MerchantIdle == mRaw = NULL /\ mOnce = NULL /\ mTwice = NULL

ClassifyIdle == cTxn = NoTransaction /\ cResult = NotCalled /\ cStages = <<>> /\ cEdge = NotCalled

CorrectIdle ==
    correctedTransaction = NoTransaction /\ allTransactions = <<>> /\ updated = NotCalled

DateIdle ==
    /\ dDay = <<1970, 1, 1>> /\ dDateStr = NULL /\ dTz = 0 /\ dNow = 0
    /\ dParsed = NotCalled /\ dFlexible = NotCalled

MergeIdle == statements = <<>> /\ merged = NotCalled

SubsIdle == sTransactions = <<>> /\ sNow = 0 /\ sTz = 0 /\ sSubscriptions = NotCalled

CsvIdle ==
    /\ csvHeaders = <<>> /\ csvRows = <<>> /\ csvTz = 0
    /\ csvRow = NotCalled /\ csvTransactions = NotCalled /\ csvWarnings = <<>>

LineIdle ==
    gLine = NULL /\ gTz = 0 /\ gNow = 0 /\ gTransaction = NotCalled /\ gWarnings = <<>>

LedgerIdle ==
    ledger = <<>> /\ ledgerCalls = 0

CleanIdle ==
    kRaw = NULL /\ kOnce = NULL /\ kTwice = NULL

MappingIdle ==
    hHeaders = <<>> /\ hMapping = NotCalled

TableIdle ==
    tLines = <<>> /\ tBoundaries = NotCalled

PdfIdle ==
    /\ pdfFile = [readable |-> FALSE] /\ pdfTz = 0 /\ pdfNow = 0
    /\ pdfStatement = NotCalled /\ pdfHsbc = NotCalled /\ pdfGeneric = NotCalled

PriceIdle ==
    pSubscription = [merchant |-> NULL] /\ pChange = NotCalled

BatchIdle ==
    /\ batchInput = <<>> /\ batchCallback = FALSE /\ batchCategorized = <<>>
    /\ batchIndex = 0 /\ batchProgress = <<>> /\ batchPc = "idle"

ResolveIdle ==
    /\ rRaw = NULL /\ rCanonical = NULL /\ rMetadata = NotCalled /\ rCategorized = NotCalled

StoreIdle ==
    /\ storeTransactions = <<>> /\ storeMessages = <<>> /\ storeIsLoaded = FALSE
    /\ storeTimers = <<>>

OthersIdle(part) ==
    /\ part = "merchant" \/ MerchantIdle
    /\ part = "classify" \/ ClassifyIdle
    /\ part = "correct"  \/ CorrectIdle
    /\ part = "date"     \/ DateIdle
    /\ part = "merge"    \/ MergeIdle
    /\ part = "subs"     \/ SubsIdle
    /\ part = "csv"      \/ CsvIdle
    /\ part = "line"     \/ LineIdle
    /\ part = "ledger" \/ LedgerIdle
    /\ part = "clean" \/ CleanIdle
    /\ part = "mapping" \/ MappingIdle
    /\ part = "table" \/ TableIdle
    /\ part = "pdf" \/ PdfIdle
    /\ part = "price" \/ PriceIdle
    /\ part = "batch" \/ BatchIdle
    /\ part = "resolve" \/ ResolveIdle
    /\ part = "store" \/ StoreIdle

Frame(part) ==
    /\ IF part = "merchant" THEN TRUE ELSE UNCHANGED merchantVars
    /\ IF part = "classify" THEN TRUE ELSE UNCHANGED classifyVars
    /\ IF part = "correct"  THEN TRUE ELSE UNCHANGED correctVars
    /\ IF part = "date"     THEN TRUE ELSE UNCHANGED dateVars
    /\ IF part = "merge"    THEN TRUE ELSE UNCHANGED mergeVars
    /\ IF part = "subs"     THEN TRUE ELSE UNCHANGED subsVars
    /\ IF part = "csv"      THEN TRUE ELSE UNCHANGED csvVars
    /\ IF part = "line"     THEN TRUE ELSE UNCHANGED lineVars
    /\ IF part = "ledger" THEN TRUE ELSE UNCHANGED ledgerVars
    /\ IF part = "clean" THEN TRUE ELSE UNCHANGED cleanVars
    /\ IF part = "mapping" THEN TRUE ELSE UNCHANGED mappingVars
    /\ IF part = "table" THEN TRUE ELSE UNCHANGED tableVars
    /\ IF part = "pdf" THEN TRUE ELSE UNCHANGED pdfVars
    /\ IF part = "price" THEN TRUE ELSE UNCHANGED priceVars
    /\ IF part = "batch" THEN TRUE ELSE UNCHANGED batchVars
    /\ IF part = "resolve" THEN TRUE ELSE UNCHANGED resolveVars
    /\ IF part = "store" THEN TRUE ELSE UNCHANGED storeVars

(***************************************************************************)
(* String primitives                                                       *)
(***************************************************************************)
Char(s, i) == SubSeq(s, i, i)

Digits == "0123456789"

LowerLetters == "abcdefghijklmnopqrstuvwxyz"

UpperLetters == "ABCDEFGHIJKLMNOPQRSTUVWXYZ"

CharIn(c, alphabet) == \E i \in 1..Len(alphabet) : Char(alphabet, i) = c

IsDigit(c) == CharIn(c, Digits)

IsLower(c) == CharIn(c, LowerLetters)

IsUpper(c) == CharIn(c, UpperLetters)

IsSpace(c) == c = " "

PosIn(c, alphabet) == CHOOSE i \in 1..Len(alphabet) : Char(alphabet, i) = c

DigitVal(c) == PosIn(c, Digits) - 1

LowerChar(c) == IF IsUpper(c) THEN Char(LowerLetters, PosIn(c, UpperLetters)) ELSE c

UpperChar(c) == IF IsLower(c) THEN Char(UpperLetters, PosIn(c, LowerLetters)) ELSE c

MapChar(c, kind) ==
    CASE kind = "lower" -> LowerChar(c)
      [] kind = "upper" -> UpperChar(c)
      [] kind = "alnum" -> IF IsLower(c) \/ IsUpper(c) \/ IsDigit(c) \/ IsSpace(c)
                           THEN c ELSE " "

RECURSIVE MapChars(_, _, _)
\* s from position i on with every character replaced by its image; kind selects the
\* image. The string is mapped half by half, which keeps the evaluation shallow.
MapChars(s, kind, i) ==
    IF i > Len(s) THEN ""
    ELSE IF i = Len(s) THEN MapChar(Char(s, i), kind)
    ELSE MapChars(SubSeq(s, i, (i + Len(s)) \div 2), kind, 1)
             \o MapChars(SubSeq(s, (i + Len(s)) \div 2 + 1, Len(s)), kind, 1)

ToLowerCase(s) == MapChars(s, "lower", 1)

ToUpperCase(s) == MapChars(s, "upper", 1)

\* the characters a..b of s (1-based, inclusive), cut to the string as String.prototype.substring does
Slice(s, a, b) ==
    LET lo == IF a < 1 THEN 1 ELSE a
        hi == IF b > Len(s) THEN Len(s) ELSE b
    IN  IF lo > hi THEN "" ELSE SubSeq(s, lo, hi)

Substring(s, from) == SubSeq(s, from + 1, Len(s))

StartsWith(s, p) == Len(p) <= Len(s) /\ SubSeq(s, 1, Len(p)) = p

EndsWith(s, p) == Len(p) <= Len(s) /\ SubSeq(s, Len(s) - Len(p) + 1, Len(s)) = p

\* String.prototype.includes: the empty string is included in every string
Includes(s, t) == \E i \in 1..(Len(s) - Len(t) + 1) : SubSeq(s, i, i + Len(t) - 1) = t

\* 1-based index of the first occurrence of t in s, 0 when there is none
IndexOf(s, t) ==
    IF Includes(s, t)
    THEN CHOOSE i \in 1..(Len(s) - Len(t) + 1) :
            /\ SubSeq(s, i, i + Len(t) - 1) = t
            /\ \A j \in 1..(i - 1) : SubSeq(s, j, j + Len(t) - 1) # t
    ELSE 0

RECURSIVE TrimStart(_)
TrimStart(s) == IF Len(s) > 0 /\ IsSpace(Char(s, 1)) THEN TrimStart(Tail(s)) ELSE s

RECURSIVE TrimEnd(_)
TrimEnd(s) ==
    IF Len(s) > 0 /\ IsSpace(Char(s, Len(s))) THEN TrimEnd(SubSeq(s, 1, Len(s) - 1)) ELSE s

Trim(s) == TrimEnd(TrimStart(s))

RECURSIVE CollapseSpaces(_, _)
\* replace(/\s+/g, ' '): every run of blanks becomes one blank
CollapseSpaces(s, i) ==
    IF i > Len(s) THEN ""
    ELSE IF IsSpace(Char(s, i)) /\ i > 1 /\ IsSpace(Char(s, i - 1))
         THEN CollapseSpaces(s, i + 1)
         ELSE Char(s, i) \o CollapseSpaces(s, i + 1)

RECURSIVE RemoveSpaces(_, _)
\* replace(/\s+/g, ''): every blank removed
RemoveSpaces(s, i) ==
    IF i > Len(s) THEN ""
    ELSE IF IsSpace(Char(s, i)) THEN RemoveSpaces(s, i + 1)
         ELSE Char(s, i) \o RemoveSpaces(s, i + 1)

\* the number of characters at the end of s that satisfy the class
RECURSIVE TrailingRun(_, _)
TrailingRun(s, class) ==
    IF Len(s) = 0 THEN 0
    ELSE LET c == Char(s, Len(s))
             in == CASE class = "digit" -> IsDigit(c)
                     [] class = "space" -> IsSpace(c)
                     [] class = "lowerOrSpace" -> IsLower(c) \/ IsSpace(c)
                     [] class = "amountChar" -> IsDigit(c) \/ c = ","
         IN  IF in THEN 1 + TrailingRun(SubSeq(s, 1, Len(s) - 1), class) ELSE 0

\* s without its last n characters
DropEnd(s, n) == SubSeq(s, 1, Len(s) - n)

\* the first alternative (in regex order) that s starts / ends with, "" when none
FirstPrefix(s, alts) ==
    IF \E k \in 1..Len(alts) : StartsWith(s, alts[k])
    THEN alts[CHOOSE k \in 1..Len(alts) :
                 StartsWith(s, alts[k]) /\ \A j \in 1..(k - 1) : ~StartsWith(s, alts[j])]
    ELSE ""

FirstSuffix(s, alts) ==
    IF \E k \in 1..Len(alts) : EndsWith(s, alts[k])
    THEN alts[CHOOSE k \in 1..Len(alts) :
                 EndsWith(s, alts[k]) /\ \A j \in 1..(k - 1) : ~EndsWith(s, alts[j])]
    ELSE ""

(***************************************************************************)
(* Known-merchant table (declaration order is Object.entries order).       *)
(* An entry without aliases carries the empty alias list.                  *)
(***************************************************************************)
KNOWN_MERCHANTS == <<
    [key |-> "tesco", canonical_name |-> "Tesco", category |-> "Food", subcategory |-> "Groceries",
     aliases |-> <<"tesco stores", "tesco express", "tesco metro">>, confidence |-> 95],
    [key |-> "sainsburys", canonical_name |-> "Sainsbury's", category |-> "Food", subcategory |-> "Groceries",
     aliases |-> <<"sainsbury", "sainsburys local">>, confidence |-> 95],
    [key |-> "asda", canonical_name |-> "Asda", category |-> "Food", subcategory |-> "Groceries",
     aliases |-> <<>>, confidence |-> 95],
    [key |-> "aldi", canonical_name |-> "Aldi", category |-> "Food", subcategory |-> "Groceries",
     aliases |-> <<>>, confidence |-> 95],
    [key |-> "lidl", canonical_name |-> "Lidl", category |-> "Food", subcategory |-> "Groceries",
     aliases |-> <<>>, confidence |-> 95],
    [key |-> "waitrose", canonical_name |-> "Waitrose", category |-> "Food", subcategory |-> "Groceries",
     aliases |-> <<>>, confidence |-> 95],
    [key |-> "morrisons", canonical_name |-> "Morrisons", category |-> "Food", subcategory |-> "Groceries",
     aliases |-> <<>>, confidence |-> 95],
    [key |-> "mcdonalds", canonical_name |-> "McDonald's", category |-> "Food", subcategory |-> "Eating out",
     aliases |-> <<"mcdonald", "mcdonalds">>, confidence |-> 95],
    [key |-> "kfc", canonical_name |-> "KFC", category |-> "Food", subcategory |-> "Eating out",
     aliases |-> <<>>, confidence |-> 95],
    [key |-> "subway", canonical_name |-> "Subway", category |-> "Food", subcategory |-> "Eating out",
     aliases |-> <<>>, confidence |-> 90],
    [key |-> "nandos", canonical_name |-> "Nando's", category |-> "Food", subcategory |-> "Eating out",
     aliases |-> <<"nandos">>, confidence |-> 95],
    [key |-> "pizzahut", canonical_name |-> "Pizza Hut", category |-> "Food", subcategory |-> "Eating out",
     aliases |-> <<"pizza hut">>, confidence |-> 95],
    [key |-> "dominos", canonical_name |-> "Domino's", category |-> "Food", subcategory |-> "Eating out",
     aliases |-> <<"dominos pizza">>, confidence |-> 95],
    [key |-> "starbucks", canonical_name |-> "Starbucks", category |-> "Food", subcategory |-> "Coffee",
     aliases |-> <<>>, confidence |-> 95],
    [key |-> "costa", canonical_name |-> "Costa Coffee", category |-> "Food", subcategory |-> "Coffee",
     aliases |-> <<"costa coffee">>, confidence |-> 95],
    [key |-> "pret", canonical_name |-> "Pret A Manger", category |-> "Food", subcategory |-> "Eating out",
     aliases |-> <<"pret a manger">>, confidence |-> 95],
    [key |-> "shell", canonical_name |-> "Shell", category |-> "Transport", subcategory |-> "Fuel",
     aliases |-> <<>>, confidence |-> 95],
    [key |-> "bp", canonical_name |-> "BP", category |-> "Transport", subcategory |-> "Fuel",
     aliases |-> <<>>, confidence |-> 95],
    [key |-> "esso", canonical_name |-> "Esso", category |-> "Transport", subcategory |-> "Fuel",
     aliases |-> <<>>, confidence |-> 95],
    [key |-> "uber", canonical_name |-> "Uber", category |-> "Transport", subcategory |-> "Rideshare",
     aliases |-> <<"uber trip", "uber bv">>, confidence |-> 95],
    [key |-> "ubereats", canonical_name |-> "Uber Eats", category |-> "Food", subcategory |-> "Eating out",
     aliases |-> <<"uber eats", "uber* eats">>, confidence |-> 95],
    [key |-> "deliveroo", canonical_name |-> "Deliveroo", category |-> "Food", subcategory |-> "Eating out",
     aliases |-> <<>>, confidence |-> 95],
    [key |-> "justeat", canonical_name |-> "Just Eat", category |-> "Food", subcategory |-> "Eating out",
     aliases |-> <<"just eat", "justeat">>, confidence |-> 95],
    [key |-> "greggs", canonical_name |-> "Greggs", category |-> "Food", subcategory |-> "Eating out",
     aliases |-> <<>>, confidence |-> 95],
    [key |-> "boots", canonical_name |-> "Boots", category |-> "Health", subcategory |-> "Pharmacy",
     aliases |-> <<"boots pharmacy">>, confidence |-> 90],
    [key |-> "puregym", canonical_name |-> "PureGym", category |-> "Health", subcategory |-> "Fitness",
     aliases |-> <<"pure gym">>, confidence |-> 95],
    [key |-> "thegym", canonical_name |-> "The Gym", category |-> "Health", subcategory |-> "Fitness",
     aliases |-> <<"the gym group">>, confidence |-> 95],
    [key |-> "tfl", canonical_name |-> "Transport for London", category |-> "Transport", subcategory |-> "Public transport",
     aliases |-> <<"transport for london", "tfl travel">>, confidence |-> 95],
    [key |-> "amazon", canonical_name |-> "Amazon", category |-> "Shopping", subcategory |-> "General",
     aliases |-> <<"amazon.co.uk", "amazon prime", "amzn">>, confidence |-> 90],
    [key |-> "netflix", canonical_name |-> "Netflix", category |-> "Subscriptions", subcategory |-> "Streaming",
     aliases |-> <<>>, confidence |-> 95],
    [key |-> "spotify", canonical_name |-> "Spotify", category |-> "Subscriptions", subcategory |-> "Streaming",
     aliases |-> <<>>, confidence |-> 95],
    [key |-> "disneyplus", canonical_name |-> "Disney+", category |-> "Subscriptions", subcategory |-> "Streaming",
     aliases |-> <<"disney plus", "disney+">>, confidence |-> 95],
    [key |-> "appletv", canonical_name |-> "Apple TV+", category |-> "Subscriptions", subcategory |-> "Streaming",
     aliases |-> <<"apple tv", "apple tv+">>, confidence |-> 95],
    [key |-> "amazonprime", canonical_name |-> "Amazon Prime", category |-> "Subscriptions", subcategory |-> "Membership",
     aliases |-> <<"prime video", "amazon prime video">>, confidence |-> 95],
    [key |-> "appleicloud", canonical_name |-> "Apple iCloud", category |-> "Subscriptions", subcategory |-> "Software",
     aliases |-> <<"apple com bil", "apple com bill", "applecom bil", "applecom bill", "apple bil", "apple bill", "icloud storage">>, confidence |-> 95],
    [key |-> "uberone", canonical_name |-> "Uber One", category |-> "Subscriptions", subcategory |-> "Membership",
     aliases |-> <<"ubr pending uber", "ubr pending", "pending uber", "uber one">>, confidence |-> 95]
>>

MerchantIndex == 1..Len(KNOWN_MERCHANTS)

\* the value of a MerchantMetadata | null result that is null
NoMetadata == [canonical_name |-> NULL]

\* KNOWN_MERCHANTS[merchantKey]: the entry declared under that key, NoMetadata when none
TableGet(merchantKey) ==
    IF \E k \in MerchantIndex : KNOWN_MERCHANTS[k].key = merchantKey
    THEN KNOWN_MERCHANTS[CHOOSE k \in MerchantIndex : KNOWN_MERCHANTS[k].key = merchantKey]
    ELSE NoMetadata

(***************************************************************************)
(* cleanMerchantName                                                       *)
(***************************************************************************)
UrlPrefixes == <<"www.", "http://", "https://">>

DomainSuffixes == <<".com", ".co.uk", ".org", ".net">>

CompanySuffixes == <<"ltd", "limited", "inc", "llc", "plc", "gmbh">>

prefixesToRemove ==
    <<"payment to", "payment from", "direct debit to", "standing order to", "card payment",
      "contactless", "chip and pin", "online purchase", "pos", "purchase at">>

\* replace(/^(www\.|http:\/\/|https:\/\/)/gi, '')
StripUrlPrefix(s) == Substring(s, Len(FirstPrefix(s, UrlPrefixes)))

\* replace(/\.(com|co\.uk|org|net)$/gi, '')
StripDomainSuffix(s) == DropEnd(s, Len(FirstSuffix(s, DomainSuffixes)))

\* replace(/\s+(ltd|limited|inc|llc|plc|gmbh)$/gi, ''): the word and the blanks before it
StripCompanySuffix(s) ==
    LET w    == FirstSuffix(s, CompanySuffixes)
        head == DropEnd(s, Len(w))
    IN  IF w # "" /\ TrailingRun(head, "space") >= 1
        THEN DropEnd(head, TrailingRun(head, "space"))
        ELSE s

\* replace(/\s*-\s*[a-z\s]+$/gi, ''): a dash followed only by letters and blanks (at least
\* one) up to the end is cut together with the blanks before it
StripDashTail(s) ==
    LET n    == TrailingRun(s, "lowerOrSpace")
        head == DropEnd(s, n)
    IN  IF n >= 1 /\ Len(head) >= 1 /\ Char(head, Len(head)) = "-"
        THEN LET h2 == DropEnd(head, 1) IN DropEnd(h2, TrailingRun(h2, "space"))
        ELSE s

\* replace(/\s+\d+$/g, ''): a final digit group and the blanks before it
StripTrailingNumber(s) ==
    LET d    == TrailingRun(s, "digit")
        head == DropEnd(s, d)
        w    == TrailingRun(head, "space")
    IN  IF d >= 1 /\ w >= 1 THEN DropEnd(head, w) ELSE s

\* replace(/[^a-z0-9\s]/gi, ' ')
BlankSpecials(s) == MapChars(s, "alnum", 1)

\* replace(/\s+/g, ' ').trim()
NormalizeSpaces(s) == Trim(CollapseSpaces(s, 1))

RECURSIVE StripPrefixes(_, _)
\* the loop over prefixesToRemove, each tried once, in order, on the running value
StripPrefixes(s, k) ==
    IF k > Len(prefixesToRemove) THEN s
    ELSE IF StartsWith(s, prefixesToRemove[k])
         THEN StripPrefixes(Trim(Substring(s, Len(prefixesToRemove[k]))), k + 1)
         ELSE StripPrefixes(s, k + 1)

cleanMerchantName(raw) ==
    IF raw = "" \/ raw = NULL THEN ""
    ELSE LET c1 == ToLowerCase(Trim(raw))
             c2 == StripDomainSuffix(StripUrlPrefix(c1))
             c3 == StripTrailingNumber(StripDashTail(StripCompanySuffix(c2)))
             c4 == NormalizeSpaces(BlankSpecials(c3))
         IN  StripPrefixes(c4, 1)

RECURSIVE TitleChars(_, _)
TitleChars(s, i) ==
    IF i > Len(s) THEN ""
    ELSE (IF i = 1 \/ IsSpace(Char(s, i - 1)) THEN UpperChar(Char(s, i)) ELSE LowerChar(Char(s, i)))
         \o TitleChars(s, i + 1)

\* split(' '), capitalise each word, join(' ')
toTitleCase(str) == TitleChars(str, 1)

(***************************************************************************)
(* getCanonicalName / lookupMerchant                                       *)
(***************************************************************************)
MerchantKeyOf(cleaned) == ToLowerCase(RemoveSpaces(cleaned, 1))

\* alias.toLowerCase().replace(/\s+/g, '') of every alias of every entry
AliasKeys ==
    [k \in MerchantIndex |->
        [a \in 1..Len(KNOWN_MERCHANTS[k].aliases) |->
            RemoveSpaces(ToLowerCase(KNOWN_MERCHANTS[k].aliases[a]), 1)]]

\* key.toLowerCase() of every entry
KnownKeys == [k \in MerchantIndex |-> ToLowerCase(KNOWN_MERCHANTS[k].key)]

AliasMatches(k, merchantKey) ==
    \E a \in 1..Len(AliasKeys[k]) :
        Includes(merchantKey, AliasKeys[k][a]) \/ Includes(AliasKeys[k][a], merchantKey)

KeyMatches(k, cleaned) ==
    Includes(cleaned, KnownKeys[k]) \/ Includes(KnownKeys[k], cleaned)

\* one pass over the entries: the first entry with a matching alias or a matching key
LoopMatches(k, cleaned, merchantKey) ==
    AliasMatches(k, merchantKey) \/ KeyMatches(k, cleaned)

FirstLoopMatch(cleaned) ==
    Let(MerchantKeyOf(cleaned),
        LAMBDA merchantKey :
            IF \E k \in MerchantIndex : LoopMatches(k, cleaned, merchantKey)
            THEN KNOWN_MERCHANTS[CHOOSE k \in MerchantIndex :
                    /\ LoopMatches(k, cleaned, merchantKey)
                    /\ \A j \in 1..(k - 1) : ~LoopMatches(j, cleaned, merchantKey)]
            ELSE NoMetadata)

lookupMerchant(merchantName) ==
    Let(cleanMerchantName(merchantName),
        LAMBDA cleaned :
            LET direct == TableGet(MerchantKeyOf(cleaned))
            IN  IF direct # NoMetadata THEN direct ELSE FirstLoopMatch(cleaned))

\* getCanonicalName without its direct key match (the loop alone decides)
getCanonicalName_NoDirect(raw) ==
    Let(cleanMerchantName(raw),
        LAMBDA cleaned :
            Let(FirstLoopMatch(cleaned),
                LAMBDA looped :
                    IF looped # NoMetadata THEN looped.canonical_name
                    ELSE toTitleCase(cleaned)))

getCanonicalName(raw) ==
    Let(cleanMerchantName(raw),
        LAMBDA cleaned :
            LET direct == TableGet(MerchantKeyOf(cleaned))
            IN  IF direct # NoMetadata THEN direct.canonical_name
                ELSE Let(FirstLoopMatch(cleaned),
                         LAMBDA looped :
                            IF looped # NoMetadata THEN looped.canonical_name
                            ELSE toTitleCase(cleaned)))

(***************************************************************************)
(* extractMerchantFromDescription                                          *)
(***************************************************************************)
IsLetter(c) == IsLower(c) \/ IsUpper(c)

\* the length of the longest prefix of s, from position i on, whose characters satisfy the class
RECURSIVE LeadingRun(_, _, _)
LeadingRun(s, i, class) ==
    IF i > Len(s) THEN 0
    ELSE LET c == Char(s, i)
             in == CASE class = "digit" -> IsDigit(c)
                     [] class = "space" -> IsSpace(c)
                     [] class = "letterOrSpace" -> IsLetter(c) \/ IsSpace(c)
                     [] class = "letter" -> IsLetter(c)
                     [] class = "notCommaDigit" -> c # "," /\ ~IsDigit(c)
                     [] class = "amountChar" -> IsDigit(c) \/ c = ","
                     [] class = "numberChar" -> IsDigit(c) \/ c = "," \/ c = "."
                     [] class = "bracket" -> c = "(" \/ c = ")"
         IN  IF in THEN 1 + LeadingRun(s, i + 1, class) ELSE 0

\* /(?:k1|k2)\s+([^,\d]+)/i tried at position i with keyword kw: the capture, NULL when no match
KeywordCaptureAt(s, i, kw) ==
    LET after == i + Len(kw)
        w     == LeadingRun(s, after, "space")
        r     == LeadingRun(s, after + w, "notCommaDigit")
    IN  IF ToLowerCase(Slice(s, i, after - 1)) # kw \/ w = 0 THEN NULL
        ELSE IF r >= 1 THEN SubSeq(s, after + w, after + w + r - 1)
        ELSE IF w >= 2 THEN " "
        ELSE NULL

\* the leftmost position, and at it the first keyword, where the pattern matches
KeywordCapture(s, kws) ==
    LET hits == {<<i, k>> \in (1..Len(s)) \X (1..Len(kws)) : KeywordCaptureAt(s, i, kws[k]) # NULL}
    IN  IF hits = {} THEN NULL
        ELSE LET best == CHOOSE h \in hits :
                            \A g \in hits : h[1] < g[1] \/ (h[1] = g[1] /\ h[2] <= g[2])
             IN  KeywordCaptureAt(s, best[1], kws[best[2]])

\* /^([a-z\s]+?)(?:\s+ch|\s+\d)/i : the shortest leading run of letters and blanks that is
\* followed by blanks and then "ch" or a digit
LazyNameCapture(s) ==
    LET run  == LeadingRun(s, 1, "letterOrSpace")
        ok(L) == LET w == LeadingRun(s, L + 1, "space")
                 IN  /\ w >= 1
                     /\ \/ ToLowerCase(Slice(s, L + 1 + w, L + 2 + w)) = "ch"
                        \/ (L + 1 + w <= Len(s) /\ IsDigit(Char(s, L + 1 + w)))
    IN  IF \E L \in 1..run : ok(L)
        THEN SubSeq(s, 1, CHOOSE L \in 1..run : ok(L) /\ \A K \in 1..(L - 1) : ~ok(K))
        ELSE NULL

\* /^([a-z\s]+)/i
LeadingNameCapture(s) ==
    IF LeadingRun(s, 1, "letterOrSpace") >= 1
    THEN SubSeq(s, 1, LeadingRun(s, 1, "letterOrSpace"))
    ELSE NULL

extractMerchantFromDescription(description) ==
    IF description = "" \/ description = NULL THEN ""
    ELSE LET m1 == KeywordCapture(description, <<"card payment to", "payment to">>)
             m2 == KeywordCapture(description, <<"direct debit to", "dd to">>)
             m3 == LazyNameCapture(description)
             m4 == LeadingNameCapture(description)
         IN  IF m1 # NULL THEN Trim(m1)
             ELSE IF m2 # NULL THEN Trim(m2)
             ELSE IF m3 # NULL THEN Trim(m3)
             ELSE IF m4 # NULL THEN Trim(m4)
             ELSE description

(***************************************************************************)
(* looksLikePersonName                                                     *)
(***************************************************************************)
RECURSIVE Split(_, _)
\* String.prototype.split(sep) for a one-character separator
Split(s, sep) ==
    IF ~Includes(s, sep) THEN <<s>>
    ELSE <<SubSeq(s, 1, IndexOf(s, sep) - 1)>> \o Split(Substring(s, IndexOf(s, sep)), sep)

HasDigit(s) == \E i \in 1..Len(s) : IsDigit(Char(s, i))

looksLikePersonName(merchantName) ==
    LET words == Split(cleanMerchantName(merchantName), " ")
    IN  IF Len(words) = 1 THEN Len(words[1]) >= 3 /\ Len(words[1]) <= 12
        ELSE IF Len(words) >= 2 /\ Len(words) <= 3
             THEN \A k \in 1..Len(words) :
                     Len(words[k]) >= 2 /\ Len(words[k]) <= 15 /\ ~HasDigit(words[k])
             ELSE FALSE

(***************************************************************************)
(* Edge-case rules (edgeCases.ts).  merchant and description arrive        *)
(* lower-cased, amount as an absolute value unless stated.                 *)
(***************************************************************************)
Abs(n) == IF n < 0 THEN -n ELSE n

Some(patterns, text) == \E k \in 1..Len(patterns) : Includes(text, patterns[k])

isATMWithdrawal(merchant, description) ==
    LET patterns == <<"atm", "cash", "withdrawal", "dispense", "cashpoint", "link", "cash machine">>
    IN  Some(patterns, merchant) \/ Some(patterns, description)

isRentPayment(merchant, description, amount) ==
    LET rentKeywords    == <<"rent", "landlord", "letting", "property", "estate">>
        hasRentKeyword  == Some(rentKeywords, merchant) \/ Some(rentKeywords, description)
        isLargeAmount   == amount >= 50000 /\ amount <= 500000
        isRegularPayment == Includes(description, "standing order") \/ Includes(description, "so")
    IN  hasRentKeyword \/ (isLargeAmount /\ isRegularPayment /\ looksLikePersonName(merchant))

isOffLicense(merchant) ==
    Some(<<"off license", "off licence", "booze", "wine shop", "liquor", "wines", "beer shop">>,
         merchant)

isSmallCafe(merchant, amount) ==
    /\ Some(<<"cafe", "coffee", "tea room", "bistro", "deli", "bakery">>, merchant)
    /\ amount >= 200 /\ amount <= 1500

isBankFee(merchant, description) ==
    LET feeKeywords == <<"bank fee", "service charge", "account fee", "monthly fee", "admin fee",
                         "maintenance fee">>
    IN  Some(feeKeywords, merchant) \/ Some(feeKeywords, description)

isInterestCharge(description) ==
    Some(<<"interest", "interest charge", "overdraft interest", "credit interest">>, description)

\* amount is the signed amount
isRefund(description, amount) ==
    /\ amount > 0
    /\ Some(<<"refund", "reversal", "chargeback", "returned", "credit adjustment">>, description)

looksLikeCompanyName(merchant) ==
    Some(<<"ltd", "limited", "inc", "corp", "plc", "llc">>, ToLowerCase(merchant))

\* amount is the signed amount
isSalary(merchant, description, amount) ==
    LET salaryKeywords == <<"salary", "wage", "payroll", "pay", "wages", "income">>
    IN  /\ amount > 0
        /\ \/ Some(salaryKeywords, merchant) \/ Some(salaryKeywords, description)
           \/ (amount >= 100000 /\ looksLikeCompanyName(merchant))

isInternalTransfer(merchant, description) ==
    LET transferKeywords == <<"transfer to", "transfer from", "internal transfer", "own account",
                              "savings transfer", "current account", "savings account">>
    IN  Some(transferKeywords, merchant) \/ Some(transferKeywords, description)

isForeignExchangeFee(description) ==
    Some(<<"foreign exchange", "fx fee", "currency conversion", "exchange rate", "non-sterling">>,
         description)

EdgeCase(category, subcategory, confidence, notes) ==
    [category |-> category, subcategory |-> subcategory, confidence |-> confidence,
     notes |-> notes, matched |-> TRUE]

NoEdgeCase ==
    [category |-> NULL, subcategory |-> NULL, confidence |-> 0, notes |-> NULL, matched |-> FALSE]

\* checkEdgeCases with the person-name rule tried before the ATM rule
checkEdgeCases_PersonFirst(transaction) ==
    LET merchant    == ToLowerCase(transaction.merchant_canonical)
        description == ToLowerCase(transaction.description)
    IN  IF looksLikePersonName(transaction.merchant_canonical)
        THEN EdgeCase("Transfers", "Friends", 70,
                      "Appears to be a personal transfer (person name detected)")
        ELSE IF isATMWithdrawal(merchant, description)
        THEN EdgeCase("Cash", "ATM Withdrawal", 95, "ATM cash withdrawal")
        ELSE NoEdgeCase

checkEdgeCases(transaction) ==
    LET merchant    == ToLowerCase(transaction.merchant_canonical)
        description == ToLowerCase(transaction.description)
        amount      == Abs(transaction.amount)
    IN  IF isATMWithdrawal(merchant, description)
        THEN EdgeCase("Cash", "ATM Withdrawal", 95, "ATM cash withdrawal")
        ELSE IF isRentPayment(merchant, description, amount)
        THEN EdgeCase("Housing", "Rent", 85, "Likely rent payment based on amount and description")
        ELSE IF looksLikePersonName(transaction.merchant_canonical)
        THEN EdgeCase("Transfers", "Friends", 70,
                      "Appears to be a personal transfer (person name detected)")
        ELSE IF isOffLicense(merchant)
        THEN EdgeCase("Shopping", "General", 80, "Off-license or alcohol shop")
        ELSE IF isSmallCafe(merchant, amount)
        THEN EdgeCase("Food", "Eating out", 75, "Small transaction at potential cafe/restaurant")
        ELSE IF isBankFee(merchant, description)
        THEN EdgeCase("Fees/Interest", "Bank fees", 90, "Bank fee or charge")
        ELSE IF isInterestCharge(description)
        THEN EdgeCase("Fees/Interest", "Interest charges", 95, "Interest charge")
        ELSE IF isRefund(description, transaction.amount)
        THEN EdgeCase("Income", "Refund", 85, "Transaction marked as refund")
        ELSE IF isSalary(merchant, description, transaction.amount)
        THEN EdgeCase("Income", "Salary", 90, "Salary or wage payment")
        ELSE IF isInternalTransfer(merchant, description)
        THEN EdgeCase("Transfers", "Other accounts", 90, "Transfer between own accounts")
        ELSE IF isForeignExchangeFee(description)
        THEN EdgeCase("Fees/Interest", "Foreign exchange", 90, "Foreign exchange fee")
        ELSE NoEdgeCase

getAmountBasedConfidence(amount, category) ==
    LET absAmount == Abs(amount)
    IN  IF absAmount < 100 THEN 60
        ELSE IF absAmount > 1000000 THEN 70
        ELSE IF category = "Food" /\ absAmount > 20000 THEN 70
        ELSE 100

(***************************************************************************)
(* Category configuration and the classifier (categorizer.ts)              *)
(***************************************************************************)
CATEGORY_CONFIG == <<
    [category |-> "Food", subcategories |-> <<"Groceries", "Eating out", "Coffee", "Alcohol">>,
     keywords |-> <<"restaurant", "cafe", "supermarket", "grocery", "food", "dining">>],
    [category |-> "Transport",
     subcategories |-> <<"Fuel", "Rideshare", "Public transport", "Parking", "Taxi">>,
     keywords |-> <<"uber", "lyft", "taxi", "petrol", "gas", "station", "parking", "tfl">>],
    [category |-> "Shopping",
     subcategories |-> <<"Clothing", "Electronics", "Home", "Personal care", "General">>,
     keywords |-> <<"amazon", "shop", "store", "retail", "clothing">>],
    [category |-> "Housing", subcategories |-> <<"Rent", "Mortgage", "Maintenance">>,
     keywords |-> <<"rent", "mortgage", "landlord", "estate", "property">>],
    [category |-> "Utilities",
     subcategories |-> <<"Electricity", "Water", "Gas", "Internet", "Mobile", "Shared bills">>,
     keywords |-> <<"electric", "water", "gas", "broadband", "internet", "mobile", "phone">>],
    [category |-> "Health", subcategories |-> <<"Medical", "Pharmacy", "Fitness", "Insurance">>,
     keywords |-> <<"pharmacy", "chemist", "doctor", "hospital", "gym", "fitness">>],
    [category |-> "Travel", subcategories |-> <<"Flights", "Accommodation", "Activities">>,
     keywords |-> <<"airline", "hotel", "booking", "airbnb", "flight", "airport">>],
    [category |-> "Entertainment", subcategories |-> <<"Movies", "Games", "Events", "Hobbies">>,
     keywords |-> <<"cinema", "theater", "game", "concert", "event", "ticket">>],
    [category |-> "Subscriptions",
     subcategories |-> <<"Streaming", "Software", "Membership", "News">>,
     keywords |-> <<"subscription", "monthly", "membership">>],
    [category |-> "Cash", subcategories |-> <<"ATM Withdrawal">>,
     keywords |-> <<"atm", "cash", "withdrawal", "dispense">>],
    [category |-> "Fees/Interest",
     subcategories |-> <<"Bank fees", "Interest charges", "Overdraft", "Foreign exchange">>,
     keywords |-> <<"fee", "charge", "interest", "overdraft", "penalty">>],
    [category |-> "Transfers",
     subcategories |-> <<"Friends", "Savings", "Investment", "Other accounts">>,
     keywords |-> <<"transfer", "payment to", "from">>],
    [category |-> "Income", subcategories |-> <<"Salary", "Refund", "Reimbursement", "Other">>,
     keywords |-> <<"salary", "wage", "refund", "reimbursement", "payment received">>],
    [category |-> "Unknown", subcategories |-> <<"Uncategorized">>, keywords |-> <<>>]
>>

Min(a, b) == IF a <= b THEN a ELSE b

\* config.keywords.filter(keyword => searchText.includes(keyword.toLowerCase())).length
MatchCount(config, searchText) ==
    Cardinality({k \in 1..Len(config.keywords) : Includes(searchText, ToLowerCase(config.keywords[k]))})

RECURSIVE BestMatch(_, _, _)
\* the loop over Object.entries(CATEGORY_CONFIG), from entry k on, with the running bestMatch
BestMatch(searchText, k, best) ==
    IF k > Len(CATEGORY_CONFIG) THEN best
    ELSE Let(MatchCount(CATEGORY_CONFIG[k], searchText),
             LAMBDA matchCount :
                LET config     == CATEGORY_CONFIG[k]
                    confidence == Min(70, 50 + matchCount * 10)
                IN  IF matchCount > 0 /\ confidence > best.confidence
                    THEN BestMatch(searchText, k + 1,
                                   [category |-> config.category, confidence |-> confidence,
                                    subcategory |-> config.subcategories[1]])
                    ELSE BestMatch(searchText, k + 1, best))

categorizeWithKeywords(transaction) ==
    Let(ToLowerCase(transaction.merchant_canonical) \o " "
            \o ToLowerCase(transaction.description),
        LAMBDA searchText :
            Let(BestMatch(searchText, 1,
                          [category |-> "Unknown", confidence |-> 30, subcategory |-> NULL]),
                LAMBDA bestMatch :
                    LET amountConfidence ==
                            getAmountBasedConfidence(transaction.amount, bestMatch.category)
                        confidence == (bestMatch.confidence * amountConfidence) \div 100
                    IN  [category |-> bestMatch.category,
                         subcategory |-> bestMatch.subcategory,
                         confidence |-> confidence,
                         notes |-> IF confidence > 50
                                   THEN "Matched keywords for " \o bestMatch.category
                                   ELSE "No clear match - needs review"]))

Categorization(r, method) ==
    [category |-> r.category, subcategory |-> r.subcategory, confidence |-> r.confidence,
     notes |-> r.notes, method |-> method]

KnownMerchantResult(knownMerchant) ==
    [category |-> knownMerchant.category, subcategory |-> knownMerchant.subcategory,
     confidence |-> knownMerchant.confidence,
     notes |-> "Matched known merchant: " \o knownMerchant.canonical_name,
     method |-> "known_merchant"]

EdgeCaseResult(edgeCase) ==
    [category |-> edgeCase.category, subcategory |-> edgeCase.subcategory,
     confidence |-> edgeCase.confidence,
     notes |-> IF edgeCase.notes # NULL THEN edgeCase.notes ELSE "Matched edge case pattern",
     method |-> "edge_case"]

\* categorizeTransaction with the edge-case rules consulted before the merchant table
categorizeTransaction_EdgeFirst(transaction) ==
    LET knownMerchant == lookupMerchant(transaction.merchant_raw)
        edgeCase      == checkEdgeCases(transaction)
    IN  IF edgeCase.matched /\ edgeCase.category # NULL THEN EdgeCaseResult(edgeCase)
        ELSE IF knownMerchant # NoMetadata THEN KnownMerchantResult(knownMerchant)
        ELSE Categorization(categorizeWithKeywords(transaction), "fallback")

categorizeTransaction(transaction) ==
    Let(lookupMerchant(transaction.merchant_raw),
        LAMBDA knownMerchant :
            IF knownMerchant # NoMetadata THEN KnownMerchantResult(knownMerchant)
            ELSE Let(checkEdgeCases(transaction),
                     LAMBDA edgeCase :
                        IF edgeCase.matched /\ edgeCase.category # NULL
                        THEN EdgeCaseResult(edgeCase)
                        ELSE Let(categorizeWithKeywords(transaction),
                                 LAMBDA r : Categorization(r, "fallback"))))

\* the stages categorizeTransaction runs, in order: each later stage runs only when the
\* earlier ones returned nothing
StagesConsulted(transaction) ==
    IF lookupMerchant(transaction.merchant_raw) # NoMetadata THEN <<"known_merchant">>
    ELSE IF checkEdgeCases(transaction).matched /\ checkEdgeCases(transaction).category # NULL
    THEN <<"known_merchant", "edge_case">>
    ELSE <<"known_merchant", "edge_case", "fallback">>

(***************************************************************************)
(* Dates.  A Date is its time value in minutes since 1970-01-01T00:00Z     *)
(* (every time of the model falls on a whole minute).  tz is the offset of *)
(* the process's local time zone in minutes east of UTC.                   *)
(***************************************************************************)
MinutesPerDay == 1440

\* day number of a civil date, 0 for 1970-01-01 (MakeDay)
DaysFromCivil(y, m, d) ==
    LET yy  == IF m <= 2 THEN y - 1 ELSE y
        era == yy \div 400
        yoe == yy - era * 400
        mp  == ((m + 9) % 12)
        doy == ((153 * mp + 2) \div 5) + d - 1
        doe == yoe * 365 + (yoe \div 4) - (yoe \div 100) + doy
    IN  era * 146097 + doe - 719468

\* civil date <<year, month, day>> of a day number (YearFromTime, MonthFromTime, DateFromTime)
CivilFromDays(n) ==
    Let(n + 719468, LAMBDA z :
    Let(z - (z \div 146097) * 146097, LAMBDA doe :
    Let((doe - (doe \div 1460) + (doe \div 36524) - (doe \div 146096)) \div 365, LAMBDA yoe :
    Let(doe - (365 * yoe + (yoe \div 4) - (yoe \div 100)), LAMBDA doy :
    Let((5 * doy + 2) \div 153, LAMBDA mp :
        LET y  == yoe + (z \div 146097) * 400
            d  == doy - ((153 * mp + 2) \div 5) + 1
            mm == IF mp < 10 THEN mp + 3 ELSE mp - 9
        IN  << IF mm <= 2 THEN y + 1 ELSE y, mm, d >>)))))

\* Date.UTC(year, monthIndex, day): months and days out of range carry over
UTCDate(year, monthIndex, day) ==
    (DaysFromCivil(year + (monthIndex \div 12), (monthIndex % 12) + 1, 1) + day - 1) * MinutesPerDay

\* new Date(year, monthIndex, day): midnight of that day in local time; a year 0..99 is 19xx
NewDate(year, monthIndex, day, tz) ==
    UTCDate(IF year >= 0 /\ year <= 99 THEN 1900 + year ELSE year, monthIndex, day) - tz

RECURSIVE DigitString(_, _)
DigitString(n, width) ==
    IF width = 0 THEN ""
    ELSE Let(n, LAMBDA v : DigitString(v \div 10, width - 1) \o Char(Digits, (v % 10) + 1))

\* date.toISOString().split('T')[0]: the UTC calendar date of the time value
ToISODate(t) ==
    Let(CivilFromDays(t \div MinutesPerDay), LAMBDA c :
        DigitString(c[1], 4) \o "-" \o DigitString(c[2], 2) \o "-" \o DigitString(c[3], 2))

\* parseInt(digits, 10) of a string of digits
RECURSIVE ParseInt(_)
ParseInt(digits) ==
    Let(digits, LAMBDA d :
        IF d = "" THEN 0 ELSE ParseInt(DropEnd(d, 1)) * 10 + DigitVal(Char(d, Len(d))))

\* a string read as digits, separator, digits, separator, digits
NumericDate(str) ==
    Let(str, LAMBDA s :
    Let(LeadingRun(s, 1, "digit"), LAMBDA a :
    Let(LeadingRun(s, a + 2, "digit"), LAMBDA b :
    Let(LeadingRun(s, a + b + 3, "digit"), LAMBDA c :
        [a |-> a, b |-> b, c |-> c,
         sep1 |-> Slice(s, a + 1, a + 1), sep2 |-> Slice(s, a + b + 2, a + b + 2),
         whole |-> a + b + c + 2 = Len(s),
         n1 |-> ParseInt(Slice(s, 1, a)), n2 |-> ParseInt(Slice(s, a + 2, a + b + 1)),
         n3 |-> ParseInt(Slice(s, a + b + 3, a + b + c + 2))]))))

IsDateSep(c) == c = "/" \/ c = "-"

\* f, the NumericDate of a string, matches /^(\d{1,2})[\/\-](\d{1,2})[\/\-](\d{n})$/, n in years
MatchesDMY(f, years) ==
    /\ f.whole /\ f.a \in 1..2 /\ f.b \in 1..2 /\ f.c \in years
    /\ IsDateSep(f.sep1) /\ IsDateSep(f.sep2)

\* f, the NumericDate of a string, matches /^(\d{4})-(\d{m})-(\d{m})$/, m in widths
MatchesISO(f, widths) ==
    /\ f.whole /\ f.a = 4 /\ f.b \in widths /\ f.c \in widths
    /\ f.sep1 = "-" /\ f.sep2 = "-"

monthMap == <<"jan", "feb", "mar", "apr", "may", "jun", "jul", "aug", "sep", "oct", "nov", "dec">>

\* monthMap[name], -1 when name is no month
MonthIndex(name) ==
    IF \E k \in 1..12 : monthMap[k] = name THEN (CHOOSE k \in 1..12 : monthMap[k] = name) - 1
    ELSE -1

\* a string read as digits, blanks, letters, blanks, digits:
\* /^(\d{1,2})\s+(jan|...|dec)[a-z]*\s+(\d...)/i
NamedDate(str) ==
    Let(str, LAMBDA s :
    Let(LeadingRun(s, 1, "digit"), LAMBDA a :
    Let(LeadingRun(s, a + 1, "space"), LAMBDA s1 :
    Let(LeadingRun(s, a + s1 + 1, "letter"), LAMBDA l :
    Let(LeadingRun(s, a + s1 + l + 1, "space"), LAMBDA s2 :
    Let(LeadingRun(s, a + s1 + l + s2 + 1, "digit"), LAMBDA c :
    Let(MonthIndex(ToLowerCase(Slice(s, a + s1 + 1, a + s1 + 3))), LAMBDA month :
        [a |-> a, s1 |-> s1, l |-> l, s2 |-> s2, c |-> c,
         head |-> a \in 1..2 /\ s1 >= 1 /\ l >= 3 /\ month >= 0,
         month |-> month,
         day |-> ParseInt(Slice(s, 1, a)),
         yearAt |-> a + s1 + l + s2 + 1,
         end |-> a + s1 + l + s2 + c])))))))

\* a two-digit year: below 50 is 20xx, otherwise 19xx
TwoDigitYear(year) == IF year < 50 THEN year + 2000 ELSE year + 1900

\* date.toISOString(): "YYYY-MM-DDTHH:mm:ss.sssZ" of the time value, in UTC
ToISOString(t) ==
    ToISODate(t) \o "T" \o DigitString((t % MinutesPerDay) \div 60, 2) \o ":"
                 \o DigitString((t % MinutesPerDay) % 60, 2) \o ":00.000Z"

\* s is "YYYY-MM-DDTHH:mm:00.000Z"
IsISOTimestamp(s) ==
    /\ Len(s) = 24 /\ SubSeq(s, 11, 11) = "T" /\ SubSeq(s, 17, 24) = ":00.000Z"
    /\ SubSeq(s, 14, 14) = ":"
    /\ LeadingRun(s, 12, "digit") = 2 /\ LeadingRun(s, 15, "digit") = 2
    /\ MatchesISO(NumericDate(SubSeq(s, 1, 10)), {2})

\* new Date(string): [valid, t].  The date-only ISO form is midnight UTC and the ISO
\* timestamp ending in Z is that UTC time; the form "DD Mon YYYY" is read by the engine's
\* legacy parser as midnight local time; any other string of the model is an Invalid Date.
DateParse(str, tz) ==
    Let(Trim(str), LAMBDA s :
    Let(NumericDate(s), LAMBDA f :
    Let(NamedDate(s), LAMBDA n :
        IF MatchesISO(f, {2}) /\ f.n2 \in 1..12 /\ f.n3 \in 1..31
        THEN [valid |-> TRUE, t |-> UTCDate(f.n1, f.n2 - 1, f.n3)]
        ELSE IF IsISOTimestamp(s)
        THEN Let(NumericDate(SubSeq(s, 1, 10)), LAMBDA d :
                 [valid |-> TRUE,
                  t |-> UTCDate(d.n1, d.n2 - 1, d.n3) + ParseInt(SubSeq(s, 12, 13)) * 60
                        + ParseInt(SubSeq(s, 15, 16))])
        ELSE IF n.head /\ n.s2 >= 1 /\ n.c = 4 /\ n.end = Len(s)
        THEN [valid |-> TRUE,
              t |-> UTCDate(ParseInt(Slice(s, n.yearAt, n.end)), n.month, n.day) - tz]
        ELSE [valid |-> FALSE, t |-> 0])))

\* the fallback of both date routines: native Date parsing
NativeFallback(dateStr, str, tz) ==
    Let(DateParse(str, tz), LAMBDA date :
        IF date.valid THEN Returned(ToISODate(date.t))
        ELSE Threw("Unable to parse date: " \o dateStr))

\* parseDate of the delimited path
parseDate(dateStr, tz) ==
    Let(NumericDate(Trim(dateStr)), LAMBDA f :
        IF dateStr = "" THEN Threw("Date is required")
        ELSE IF MatchesDMY(f, {4}) \/ MatchesDMY(f, {2})
        THEN Returned(ToISODate(NewDate(IF f.n3 < 100 THEN TwoDigitYear(f.n3) ELSE f.n3,
                                        f.n2 - 1, f.n1, tz)))
        ELSE IF MatchesISO(f, 1..2)
        THEN Returned(ToISODate(NewDate(f.n1, f.n2 - 1, f.n3, tz)))
        ELSE NativeFallback(dateStr, dateStr, tz))

\* new Date().getFullYear(): the local calendar year of the time value now
GetFullYear(now, tz) == CivilFromDays((now + tz) \div MinutesPerDay)[1]

\* parseFlexibleDate of the rendered-document path; now is the time of the call
parseFlexibleDate(dateStr, tz, now) ==
    Let(Trim(dateStr), LAMBDA cleaned :
    Let(NamedDate(cleaned), LAMBDA n :
    Let(NumericDate(cleaned), LAMBDA f :
        IF n.head /\ n.s2 >= 1 /\ n.c >= 4
        THEN Returned(ToISODate(NewDate(ParseInt(Slice(cleaned, n.yearAt, n.yearAt + 3)),
                                        n.month, n.day, tz)))
        ELSE IF n.head /\ n.s2 >= 1 /\ n.c = 2
                /\ (n.end = Len(cleaned) \/ IsSpace(Slice(cleaned, n.end + 1, n.end + 1)))
        THEN Returned(ToISODate(NewDate(TwoDigitYear(ParseInt(Slice(cleaned, n.yearAt, n.end))),
                                        n.month, n.day, tz)))
        ELSE IF n.head /\ (n.s2 >= 1 \/ n.a + n.s1 + n.l = Len(cleaned))
        THEN Let(GetFullYear(now, tz), LAMBDA year :
                 Returned(ToISODate(NewDate(IF NewDate(year, n.month, n.day, tz) > now
                                            THEN year - 1 ELSE year,
                                            n.month, n.day, tz))))
        ELSE IF MatchesDMY(f, 2..4)
        THEN Returned(ToISODate(NewDate(IF f.n3 < 100 THEN TwoDigitYear(f.n3) ELSE f.n3,
                                        f.n2 - 1, f.n1, tz)))
        ELSE IF MatchesISO(f, {2})
        THEN Returned(cleaned)
        ELSE NativeFallback(dateStr, cleaned, tz))))

(***************************************************************************)
(* Merchant resolution: the resolver applied to a raw string, then to its  *)
(* own result.                                                             *)
(***************************************************************************)
CanonicalNames == {KNOWN_MERCHANTS[k].canonical_name : k \in MerchantIndex}

\* raw merchant strings as they appear in statements
RawSamples ==
    {"TESCO STORES 1234", "uber eats london", "payment to netflix", "www.amazon.co.uk",
     "Tesco - London", "POS Greggs 22", "card payment contactless kfc", "The Gym Group plc",
     "APPLE.COM/BIL", "https://spotify.com", "SAINSBURYS LOCAL", "Pure Gym Ltd",
     "John Smith", "Corner Cafe Ltd", "ATM LINK 4455", "Zed Wines", "X 12 34"}

MerchantInit == mRaw \in CanonicalNames \cup RawSamples /\ mOnce = NULL /\ mTwice = NULL

ResolveOnce ==
    /\ mRaw # NULL /\ mOnce = NULL
    /\ mOnce' = getCanonicalName(mRaw)
    /\ UNCHANGED <<mRaw, mTwice>>
    /\ Frame("merchant")

ResolveTwice ==
    /\ mOnce # NULL /\ mTwice = NULL
    /\ mTwice' = getCanonicalName(mOnce)
    /\ UNCHANGED <<mRaw, mOnce>>
    /\ Frame("merchant")

InitMerchant == MerchantInit /\ OthersIdle("merchant")

NextMerchant == ResolveOnce \/ ResolveTwice

SpecMerchant == InitMerchant /\ [][NextMerchant]_vars

\* C10: resolving an entry's canonical name returns that name, and resolving the result
\* of a resolution that hit the table returns the same name again.
C10_ResolveIdempotent ==
    /\ (mOnce # NULL /\ mRaw \in CanonicalNames) => mOnce = mRaw
    /\ (mTwice # NULL /\ lookupMerchant(mRaw) # NoMetadata) => mTwice = mOnce

\* a raw statement string that is not itself canonical, resolved to an entry, resolved again
C10_Witness ==
    /\ mTwice # NULL /\ lookupMerchant(mRaw) # NoMetadata
    /\ mRaw \notin CanonicalNames /\ mOnce \in CanonicalNames /\ mTwice = mOnce

(***************************************************************************)
(* Classification: one transaction through categorizeTransaction and       *)
(* checkEdgeCases.                                                         *)
(***************************************************************************)
\* raw merchants as the parsers extract them from statement lines
ClassifyMerchants ==
    {"TESCO STORES", "NETFLIX", "John Smith", "Fine Wines And Spirits Ltd",
     "The Old Corner Cafe Bar", "zzzz qqqq xxxx vvvv", "Big Employer Corp Ltd"}

\* statement descriptions
ClassifyDescriptions ==
    {"ATM CASH WITHDRAWAL", "Monthly rent payment to landlord",
     "Monthly account fee for premium service", "Overdraft interest charged",
     "Refund from online order", "Salary payroll", "Transfer to savings account",
     "non-sterling transaction fee", "card purchase 99",
     "airport taxi parking hotel booking", "Linkedin job advert"}

\* signed amounts, in hundredths
ClassifyAmounts == {-450, 50, 120000}

\* a transaction as the parsers build it: the canonical name is resolved from the raw one
NewTransaction(merchant_raw, description, amount) ==
    [merchant_raw |-> merchant_raw, merchant_canonical |-> getCanonicalName(merchant_raw),
     description |-> description, amount |-> amount]

ClassifyInit ==
    /\ cTxn \in {NewTransaction(r, d, a) :
                     r \in ClassifyMerchants, d \in ClassifyDescriptions, a \in ClassifyAmounts}
    /\ cResult = NotCalled /\ cStages = <<>> /\ cEdge = NotCalled

CategorizeTransaction ==
    /\ cTxn # NoTransaction /\ cResult = NotCalled
    /\ cResult' = categorizeTransaction(cTxn)
    /\ cStages' = StagesConsulted(cTxn)
    /\ UNCHANGED <<cTxn, cEdge>>
    /\ Frame("classify")

CheckEdgeCases ==
    /\ cTxn # NoTransaction /\ cEdge = NotCalled
    /\ cEdge' = checkEdgeCases(cTxn)
    /\ UNCHANGED <<cTxn, cResult, cStages>>
    /\ Frame("classify")

InitClassify == ClassifyInit /\ OthersIdle("classify")

NextClassify == CategorizeTransaction \/ CheckEdgeCases

SpecClassify == InitClassify /\ [][NextClassify]_vars

\* the eleven predicates of checkEdgeCases on a transaction, in the order of the claim
EdgePredicates(transaction) ==
    LET merchant    == ToLowerCase(transaction.merchant_canonical)
        description == ToLowerCase(transaction.description)
        amount      == Abs(transaction.amount)
    IN  << isATMWithdrawal(merchant, description),
           isRentPayment(merchant, description, amount),
           looksLikePersonName(transaction.merchant_canonical),
           isOffLicense(merchant),
           isSmallCafe(merchant, amount),
           isBankFee(merchant, description),
           isInterestCharge(description),
           isRefund(description, transaction.amount),
           isSalary(merchant, description, transaction.amount),
           isInternalTransfer(merchant, description),
           isForeignExchangeFee(description) >>

\* the tuple each predicate owns: category, subcategory, confidence
EdgeTuples ==
    << <<"Cash", "ATM Withdrawal", 95>>, <<"Housing", "Rent", 85>>,
       <<"Transfers", "Friends", 70>>, <<"Shopping", "General", 80>>,
       <<"Food", "Eating out", 75>>, <<"Fees/Interest", "Bank fees", 90>>,
       <<"Fees/Interest", "Interest charges", 95>>, <<"Income", "Refund", 85>>,
       <<"Income", "Salary", 90>>, <<"Transfers", "Other accounts", 90>>,
       <<"Fees/Interest", "Foreign exchange", 90>> >>

EdgeTrue(transaction) == {k \in 1..11 : EdgePredicates(transaction)[k]}

FirstEdge(transaction) == CHOOSE k \in EdgeTrue(transaction) : \A j \in EdgeTrue(transaction) : k <= j

\* C5: when the lookup finds metadata for the raw merchant, categorizeTransaction returns
\* method "known_merchant" with the entry's category, subcategory and confidence, whatever
\* the description and amount are; the edge-case and keyword stages run only when the
\* lookup found nothing.
C5_KnownMerchantFirst ==
    cResult # NotCalled =>
        LET knownMerchant == lookupMerchant(cTxn.merchant_raw)
        IN  /\ knownMerchant # NoMetadata =>
                  /\ cResult.method = "known_merchant"
                  /\ cResult.category = knownMerchant.category
                  /\ cResult.subcategory = knownMerchant.subcategory
                  /\ cResult.confidence = knownMerchant.confidence
                  /\ cStages = <<"known_merchant">>
            /\ (\E k \in 1..Len(cStages) : cStages[k] \in {"edge_case", "fallback"})
                  => knownMerchant = NoMetadata

\* a table merchant whose description satisfies an edge-case predicate, classified
C5_Witness ==
    /\ cResult # NotCalled
    /\ lookupMerchant(cTxn.merchant_raw) # NoMetadata
    /\ checkEdgeCases(cTxn).matched
    /\ Includes(ToLowerCase(cTxn.description), "atm")
    /\ cResult.method = "known_merchant"

\* C6: checkEdgeCases returns the tuple of the first true predicate in the order ATM/cash,
\* rent, person-to-person, off-license, small cafe, bank fee, interest charge, refund,
\* salary, internal transfer, foreign-exchange fee; ATM wins over a person name; with no
\* true predicate it returns matched = false and confidence 0.
C6_FirstPredicateWins ==
    cEdge # NotCalled =>
        /\ EdgeTrue(cTxn) # {} =>
              /\ cEdge.matched
              /\ <<cEdge.category, cEdge.subcategory, cEdge.confidence>>
                     = EdgeTuples[FirstEdge(cTxn)]
        /\ EdgeTrue(cTxn) = {} => (~cEdge.matched /\ cEdge.confidence = 0)
        /\ {1, 3} \subseteq EdgeTrue(cTxn) =>
              <<cEdge.category, cEdge.subcategory, cEdge.confidence>>
                 = <<"Cash", "ATM Withdrawal", 95>>

\* an ATM description on a person-name merchant, checked
C6_Witness ==
    /\ cEdge # NotCalled
    /\ {1, 3} \subseteq EdgeTrue(cTxn)
    /\ cEdge.category = "Cash" /\ cEdge.confidence = 95

(***************************************************************************)
(* Correction propagation: applyCorrectionToSimilar on a list of           *)
(* classified transactions.                                                *)
(***************************************************************************)
MaxTransactions == 3

\* applyCorrectionToSimilar without the merchant comparison
applyCorrectionToSimilar_AnyMerchant(corrected, all) ==
    [i \in 1..Len(all) |->
        IF all[i].id # corrected.id
        THEN [all[i] EXCEPT !.category = corrected.category,
                            !.subcategory = corrected.subcategory,
                            !.confidence = Min(90, corrected.confidence + 10),
                            !.notes = "Applied correction from similar transaction"]
        ELSE all[i]]

\* updated is a copy of the list; the entries that qualify are replaced by new objects
applyCorrectionToSimilar(corrected, all) ==
    [i \in 1..Len(all) |->
        IF all[i].id # corrected.id /\ all[i].merchant_canonical = corrected.merchant_canonical
        THEN [all[i] EXCEPT !.category = corrected.category,
                            !.subcategory = corrected.subcategory,
                            !.confidence = Min(90, corrected.confidence + 10),
                            !.notes = "Applied correction from similar transaction"]
        ELSE all[i]]

CorrectMerchants == {"Tesco", "Uber"}

\* category, subcategory, confidence and notes as the classifier leaves them
Classified ==
    { <<"Food", "Groceries", 95, "Matched known merchant: Tesco">>,
      <<"Unknown", NULL, 30, NULL>> }

\* the transaction at position i of a list; generateId gives every transaction its own id
ListedTransaction(i, merchant, c) ==
    [id |-> <<"t", i>>, merchant_canonical |-> merchant, category |-> c[1],
     subcategory |-> c[2], confidence |-> c[3], notes |-> c[4]]

TransactionLists ==
    UNION { { [i \in 1..n |-> ListedTransaction(i, ms[i], cs[i])] :
                ms \in [1..n -> CorrectMerchants], cs \in [1..n -> Classified] } :
            n \in 0..MaxTransactions }

\* what the user chose for the corrected transaction: category, subcategory, confidence
UserChoices == { <<"Shopping", "General", 100>>, <<"Transport", "Fuel", 75>>,
                 <<"Housing", "Rent", 85>> }

CorrectInit ==
    /\ allTransactions \in TransactionLists
    /\ \E i \in 1..(MaxTransactions + 1), merchant \in CorrectMerchants, u \in UserChoices :
          correctedTransaction =
              [id |-> <<"t", i>>, merchant_canonical |-> merchant, category |-> u[1],
               subcategory |-> u[2], confidence |-> u[3], notes |-> "User correction"]
    /\ updated = NotCalled

ApplyCorrectionToSimilar ==
    /\ correctedTransaction # NoTransaction /\ updated = NotCalled
    /\ updated' = Returned(applyCorrectionToSimilar(correctedTransaction, allTransactions))
    /\ UNCHANGED <<correctedTransaction, allTransactions>>
    /\ Frame("correct")

InitCorrect == CorrectInit /\ OthersIdle("correct")

NextCorrect == ApplyCorrectionToSimilar

SpecCorrect == InitCorrect /\ [][NextCorrect]_vars

\* the entry at position i is another transaction of the corrected merchant
IsSimilar(i) ==
    /\ allTransactions[i].id # correctedTransaction.id
    /\ allTransactions[i].merchant_canonical = correctedTransaction.merchant_canonical

C7_Returned ==
    updated.called =>
        LET u == updated.value
        IN  /\ Len(u) = Len(allTransactions)
            /\ \A i \in 1..Len(u) :
                  /\ u[i].id = allTransactions[i].id
                  /\ u[i].merchant_canonical = allTransactions[i].merchant_canonical
                  /\ IsSimilar(i) =>
                        /\ u[i].category = correctedTransaction.category
                        /\ u[i].subcategory = correctedTransaction.subcategory
                        /\ u[i].confidence = Min(90, correctedTransaction.confidence + 10)
                        /\ u[i].notes = "Applied correction from similar transaction"
                  /\ allTransactions[i].merchant_canonical
                        # correctedTransaction.merchant_canonical => u[i] = allTransactions[i]

\* C7: applyCorrectionToSimilar returns a list of the same length and order; every other
\* transaction of the corrected merchant carries the corrected category and subcategory,
\* confidence min(0.9, corrected confidence + 0.1) and the inherited-correction note; every
\* transaction of a different merchant is returned unchanged; the input list is not
\* modified.
C7_CorrectionPropagates == [] C7_Returned /\ [][allTransactions' = allTransactions]_vars

\* a list holding a similar transaction, the corrected one and one of another merchant
C7_Witness ==
    /\ updated.called /\ Len(allTransactions) = 3
    /\ \E i, j, k \in 1..3 :
          /\ IsSimilar(i) /\ updated.value[i] # allTransactions[i]
          /\ allTransactions[j].id = correctedTransaction.id
          /\ allTransactions[k].merchant_canonical # correctedTransaction.merchant_canonical
          /\ updated.value[k] = allTransactions[k]

(***************************************************************************)
(* Date routines: one calendar day, spelled as a statement spells it,      *)
(* through parseDate and parseFlexibleDate.                                *)
(***************************************************************************)
StatementDays ==
    { <<2024, 3, 5>>, <<2024, 1, 1>>, <<2023, 12, 31>>, <<2024, 2, 29>>, <<1999, 7, 23>>,
      <<2000, 10, 15>> }

\* offsets of the process's zone: Los Angeles, New York, London in winter, London in
\* summer, Kolkata, Sydney
ZoneOffsets == {-480, -300, 0, 60, 330, 600}

CallTimes == { UTCDate(2024, 5, 15) + 600, UTCDate(2025, 0, 2) }

DateSpellings == {"DD/MM/YYYY", "DD/MM/YY", "YYYY-MM-DD", "DD Mon YYYY"}

MonthTitles == <<"Jan", "Feb", "Mar", "Apr", "May", "Jun", "Jul", "Aug", "Sep", "Oct", "Nov", "Dec">>

\* the spelling of calendar day c in one of the accepted formats
Spell(spelling, c) ==
    CASE spelling = "DD/MM/YYYY" ->
           DigitString(c[3], 2) \o "/" \o DigitString(c[2], 2) \o "/" \o DigitString(c[1], 4)
      [] spelling = "DD/MM/YY" ->
           DigitString(c[3], 2) \o "/" \o DigitString(c[2], 2) \o "/" \o DigitString(c[1] % 100, 2)
      [] spelling = "YYYY-MM-DD" ->
           DigitString(c[1], 4) \o "-" \o DigitString(c[2], 2) \o "-" \o DigitString(c[3], 2)
      [] spelling = "DD Mon YYYY" ->
           DigitString(c[3], 2) \o " " \o MonthTitles[c[2]] \o " " \o DigitString(c[1], 4)

DateInit ==
    /\ dDay \in StatementDays
    /\ \E spelling \in DateSpellings : dDateStr = Spell(spelling, dDay)
    /\ dTz \in ZoneOffsets
    /\ dNow \in CallTimes
    /\ dParsed = NotCalled /\ dFlexible = NotCalled

ParseDate ==
    /\ dDateStr # NULL /\ dParsed = NotCalled
    /\ dParsed' = parseDate(dDateStr, dTz)
    /\ UNCHANGED <<dDay, dDateStr, dTz, dNow, dFlexible>>
    /\ Frame("date")

ParseFlexibleDate ==
    /\ dDateStr # NULL /\ dFlexible = NotCalled
    /\ dFlexible' = parseFlexibleDate(dDateStr, dTz, dNow)
    /\ UNCHANGED <<dDay, dDateStr, dTz, dNow, dParsed>>
    /\ Frame("date")

InitDate == DateInit /\ OthersIdle("date")

NextDate == ParseDate \/ ParseFlexibleDate

SpecDate == InitDate /\ [][NextDate]_vars

\* C3: every accepted spelling of a calendar day ("DD/MM/YYYY", "DD/MM/YY",
\* "YYYY-MM-DD", "DD Mon YYYY") is mapped to the canonical string "YYYY-MM-DD" of that
\* same day, in every time zone of the process, by parseDate and by parseFlexibleDate.
C3_SameCanonicalDay ==
    /\ dParsed.called => dParsed = Returned(Spell("YYYY-MM-DD", dDay))
    /\ dFlexible.called => dFlexible = Returned(Spell("YYYY-MM-DD", dDay))

(***************************************************************************)
(* Statement merging: mergeStatements on a list of parsed statements.      *)
(***************************************************************************)
MaxStatements == 2

\* new Date(date).getTime() of a canonical date string (midnight UTC in every zone)
GetTime(date) == DateParse(date, 0).t

RECURSIVE Concat(_, _)
\* allTransactions after the push loop: the statements' transactions one after another
Concat(stmts, k) ==
    IF k > Len(stmts) THEN <<>> ELSE stmts[k].transactions \o Concat(stmts, k + 1)

RECURSIVE Ascending(_)
\* the numbers of a set in ascending order
Ascending(S) ==
    IF S = {} THEN <<>>
    ELSE Let(CHOOSE x \in S : \A y \in S : x <= y, LAMBDA least :
             <<least>> \o Ascending(S \ {least}))

RECURSIVE InOrderOf(_, _, _)
\* the entries of array whose time is times[k], times[k+1], ..., each group in array order
InOrderOf(array, times, k) ==
    IF k > Len(times) THEN <<>>
    ELSE SelectSeq(array, LAMBDA t : GetTime(t.date) = times[k]) \o InOrderOf(array, times, k + 1)

\* array.sort((a, b) => new Date(a.date).getTime() - new Date(b.date).getTime()):
\* Array.prototype.sort is stable
SortByDate(array) ==
    Let(array, LAMBDA a :
    Let(Ascending({GetTime(a[i].date) : i \in 1..Len(a)}), LAMBDA times :
        InOrderOf(a, times, 1)))

SameTriple(t, transaction) ==
    /\ t.date = transaction.date
    /\ t.amount = transaction.amount
    /\ t.merchant_canonical = transaction.merchant_canonical

\* array.findIndex(t => same triple as array[index]), 1-based
FindIndex(array, index) ==
    CHOOSE j \in 1..index :
        /\ SameTriple(array[j], array[index])
        /\ \A i \in 1..(j - 1) : ~SameTriple(array[i], array[index])

\* array.findIndex counted from the end: the last entry with the triple of array[index]
FindLastIndex(array, index) ==
    CHOOSE j \in index..Len(array) :
        /\ SameTriple(array[j], array[index])
        /\ \A i \in (j + 1)..Len(array) : ~SameTriple(array[i], array[index])

RECURSIVE FilterFirst(_, _)
\* array.filter((transaction, index, array) => findIndex(...) === index)
FilterFirst(array, index) ==
    IF index > Len(array) THEN <<>>
    ELSE (IF FindIndex(array, index) = index THEN <<array[index]>> ELSE <<>>)
         \o FilterFirst(array, index + 1)

RECURSIVE FilterLast(_, _)
FilterLast(array, index) ==
    IF index > Len(array) THEN <<>>
    ELSE (IF FindLastIndex(array, index) = index THEN <<array[index]>> ELSE <<>>)
         \o FilterLast(array, index + 1)

\* mergeStatements keeping the last occurrence of each triple
mergeStatements_KeepLast(stmts) ==
    Let(SortByDate(Concat(stmts, 1)), LAMBDA sorted :
        [filename |-> "Merged (" \o ToString(Len(stmts)) \o " files)",
         transactions |-> FilterLast(sorted, 1)])

mergeStatements(stmts) ==
    Let(SortByDate(Concat(stmts, 1)), LAMBDA sorted :
        [filename |-> "Merged (" \o ToString(Len(stmts)) \o " files)",
         transactions |-> FilterFirst(sorted, 1)])

\* (date, amount, canonical merchant) of the transactions of the model: each component
\* differs between some two of them
MergeTriples ==
    { <<"2024-03-05", -450, "Tesco">>, <<"2024-03-05", -450, "Uber">>,
      <<"2024-03-05", 1200, "Tesco">>, <<"2024-01-01", -450, "Tesco">>,
      <<"2023-12-31", 1200, "Uber">> }

\* the i-th transaction parsed; generateId gives every transaction its own id
ParsedTransaction(i, triple) ==
    [id |-> <<"t", i>>, date |-> triple[1], amount |-> triple[2],
     merchant_canonical |-> triple[3]]

\* the ways to cut n transactions into s consecutive statements (some may be empty)
Cuts(n, s) ==
    { c \in [0..s -> 0..n] : c[0] = 0 /\ c[s] = n /\ \A k \in 1..s : c[k - 1] <= c[k] }

MergeInit ==
    /\ \E n \in 0..MaxTransactions, s \in 1..MaxStatements :
          \E triples \in [1..n -> MergeTriples], c \in Cuts(n, s) :
              statements =
                  [k \in 1..s |->
                      [filename |-> "statement" \o ToString(k),
                       transactions |->
                           [i \in 1..(c[k] - c[k - 1]) |->
                               ParsedTransaction(c[k - 1] + i, triples[c[k - 1] + i])]]]
    /\ merged = NotCalled

MergeStatements ==
    /\ merged = NotCalled
    /\ merged' = Returned(mergeStatements(statements))
    /\ UNCHANGED statements
    /\ Frame("merge")

InitMerge == MergeInit /\ OthersIdle("merge")

NextMerge == MergeStatements

SpecMerge == InitMerge /\ [][NextMerge]_vars

\* position of transaction t in the concatenation of the statements
PositionIn(array, t) == CHOOSE i \in 1..Len(array) : array[i] = t

\* C8: mergeStatements returns the transactions sorted by date ascending, with no two
\* entries of the same (date, amount, canonical merchant) triple, with one entry for every
\* triple of the inputs, and for each triple the occurrence that comes first in the
\* concatenation of the input statements.
C8_MergeSortedUnique ==
    merged.called =>
        Let(Concat(statements, 1), LAMBDA all :
        Let(merged.value.transactions, LAMBDA u :
            /\ \A i, j \in 1..Len(u) : i < j => GetTime(u[i].date) <= GetTime(u[j].date)
            /\ \A i, j \in 1..Len(u) : i # j => ~SameTriple(u[i], u[j])
            /\ \A k \in 1..Len(all) : \E i \in 1..Len(u) : SameTriple(u[i], all[k])
            /\ \A i \in 1..Len(u) :
                  /\ \E k \in 1..Len(all) : all[k] = u[i]
                  /\ \A k \in 1..Len(all) :
                        SameTriple(all[k], u[i]) => PositionIn(all, u[i]) <= k))

\* two statements sharing a triple, with a later date listed before an earlier one
C8_Witness ==
    /\ merged.called /\ Len(statements) = 2
    /\ Len(statements[1].transactions) = 2 /\ Len(statements[2].transactions) = 1
    /\ SameTriple(statements[1].transactions[1], statements[2].transactions[1])
    /\ GetTime(statements[1].transactions[2].date) < GetTime(statements[1].transactions[1].date)
    /\ Len(merged.value.transactions) = 2
    /\ merged.value.transactions[2] = statements[1].transactions[1]

(***************************************************************************)
(* Subscription detection.  An interval is a whole number of days; a       *)
(* Subscription's confidence is an integer number of thousandths.          *)
(***************************************************************************)
\* Math.round(n / d) for d > 0: halves round up
RoundDiv(n, d) == (2 * n + d) \div (2 * d)

\* daysBetween with Math.floor in place of Math.round
daysBetween_Floor(date1, date2, tz) ==
    (DateParse(date2, tz).t - DateParse(date1, tz).t) \div MinutesPerDay

\* daysBetween(date1, date2)
daysBetween(date1, date2, tz) ==
    RoundDiv(DateParse(date2, tz).t - DateParse(date1, tz).t, MinutesPerDay)

\* calculateIntervals(transactions)
calculateIntervals(transactions, tz) ==
    [i \in 1..(Len(transactions) - 1) |->
        daysBetween(transactions[i].date, transactions[i + 1].date, tz)]

RECURSIVE SumFrom(_, _)
SumFrom(numbers, i) ==
    IF i > Len(numbers) THEN 0 ELSE numbers[i] + SumFrom(numbers, i + 1)

\* numbers.reduce((sum, n) => sum + n, 0)
Sum(numbers) == Let(numbers, LAMBDA ns : SumFrom(ns, 1))

\* calculateVariance(numbers) times numbers.length squared: n * sum of squares - square of sum
VarianceNumerator(numbers) ==
    Let(numbers, LAMBDA ns :
        Len(ns) * Sum([i \in 1..Len(ns) |-> ns[i] * ns[i]]) - Sum(ns) * Sum(ns))

\* the largest r with r * r <= n, for n below a million
ISqrt(n) == CHOOSE r \in 0..1000 : r * r <= n /\ (r + 1) * (r + 1) > n

Max(a, b) == IF a >= b THEN a ELSE b

NoPattern == [cadence |-> NULL, confidence |-> 0]

\* the cadence detectPattern picks for an average interval of total / n days:
\* <<cadence, expectedInterval, tolerance>>
CadenceOf(total, n) ==
    IF total <= 10 * n THEN <<"weekly", 7, 3>>
    ELSE IF total <= 40 * n THEN <<"monthly", 30, 5>>
    ELSE IF total <= 100 * n THEN <<"quarterly", 90, 10>>
    ELSE <<"yearly", 365, 15>>

\* detectPattern(intervals); scores are thousandths: the standard deviation over the
\* expected interval is rounded down to a thousandth, the deviation over the tolerance up
detectPattern(intervals) ==
    Let(intervals, LAMBDA xs :
        IF Len(xs) = 0 THEN NoPattern
        ELSE
        Let(Len(xs), LAMBDA n :
        Let(Sum(xs), LAMBDA total :
        Let(CadenceOf(total, n), LAMBDA c :
        Let(VarianceNumerator(xs), LAMBDA vn :
            LET expectedInterval == c[2]
                tolerance        == c[3]
                stdOverExpected  ==
                    IF vn >= n * n * expectedInterval * expectedInterval THEN 1000
                    ELSE ISqrt(((vn * 1000) \div (n * n * expectedInterval * expectedInterval))
                               * 1000)
                consistencyScore == Max(0, 1000 - stdOverExpected)
                deviation        == Abs(total - expectedInterval * n)
                matchScore       ==
                    Max(0, 1000 - ((deviation * 1000 + tolerance * n - 1) \div (tolerance * n)))
                confidence       == (consistencyScore * 600 + matchScore * 400) \div 1000
            IN  IF confidence < 500 THEN NoPattern
                ELSE [cadence |-> c[1], confidence |-> Min(950, confidence)])))))

\* getCadenceInDays answering 30 for every cadence
getCadenceInDays_Monthly(cadence) == 30

\* getCadenceInDays(cadence)
getCadenceInDays(cadence) ==
    CASE cadence = "weekly" -> 7
      [] cadence = "monthly" -> 30
      [] cadence = "quarterly" -> 90
      [] cadence = "yearly" -> 365
      [] OTHER -> 30

\* calculateNextDue(lastDate, cadence): setDate / setMonth / setFullYear work on the local
\* calendar fields of the Date and carry over days past the end of a month
calculateNextDue(lastDate, cadence, tz) ==
    Let(DateParse(lastDate, tz).t + tz, LAMBDA local :
    Let(CivilFromDays(local \div MinutesPerDay), LAMBDA c :
        LET monthIndex == c[2] - 1
            moved ==
                CASE cadence = "weekly" -> UTCDate(c[1], monthIndex, c[3] + 7)
                  [] cadence = "monthly" -> UTCDate(c[1], monthIndex + 1, c[3])
                  [] cadence = "quarterly" -> UTCDate(c[1], monthIndex + 3, c[3])
                  [] cadence = "yearly" -> UTCDate(c[1] + 1, monthIndex, c[3])
                  [] OTHER -> UTCDate(c[1], monthIndex, c[3])
        IN  ToISODate(moved + (local % MinutesPerDay) - tz)))

RECURSIVE MerchantsFrom(_, _)
\* the keys of groupByMerchant's Map, in insertion order
MerchantsFrom(transactions, i) ==
    IF i > Len(transactions) THEN <<>>
    ELSE (IF \E j \in 1..(i - 1) :
                transactions[j].merchant_canonical = transactions[i].merchant_canonical
          THEN <<>> ELSE <<transactions[i].merchant_canonical>>)
         \o MerchantsFrom(transactions, i + 1)

\* groupByMerchant(transactions): <<merchant, its transactions in input order>>, in the
\* order the merchants first appear
groupByMerchant(transactions) ==
    Let(transactions, LAMBDA ts :
    Let(MerchantsFrom(ts, 1), LAMBDA merchants :
        [k \in 1..Len(merchants) |->
            <<merchants[k], SelectSeq(ts, LAMBDA t : t.merchant_canonical = merchants[k])>>]))

\* the body of detectSubscriptions' loop for one merchant: the Subscription it pushes, if any
SubscriptionOf(merchant, txns, now, tz) ==
    Let(SelectSeq(txns, LAMBDA t : t.amount < 0), LAMBDA expenses :
        IF Len(txns) < 2 \/ Len(expenses) < 2 THEN <<>>
        ELSE
        Let(SortByDate(expenses), LAMBDA sorted :
        Let(detectPattern(calculateIntervals(sorted, tz)), LAMBDA pattern :
        Let([i \in 1..Len(sorted) |-> Abs(sorted[i].amount)], LAMBDA amounts :
            IF pattern = NoPattern THEN <<>>
            \* amountVariance < avgAmount * 0.2, in hundredths
            ELSE IF ~(VarianceNumerator(amounts) < 20 * Len(amounts) * Sum(amounts)) THEN <<>>
            ELSE
            LET avgAmount == Sum(amounts) \div Len(amounts)
                lastTransaction == sorted[Len(sorted)]
                nextDue == calculateNextDue(lastTransaction.date, pattern.cadence, tz)
                daysSinceLastCharge == daysBetween(lastTransaction.date, ToISOString(now), tz)
                expectedInterval == getCadenceInDays(pattern.cadence)
                isActive == 2 * daysSinceLastCharge <= expectedInterval * 3
            IN  << [merchant |-> merchant, amount |-> avgAmount,
                    currency |-> sorted[1].currency, cadence |-> pattern.cadence,
                    confidence |-> pattern.confidence, transactions |-> sorted,
                    nextDue |-> IF isActive THEN nextDue ELSE NULL,
                    averageAmount |-> avgAmount, lastCharge |-> lastTransaction.date,
                    status |-> IF isActive THEN "active" ELSE "cancelled"] >>))))

RECURSIVE PushedFrom(_, _, _, _)
\* the subscriptions array after the loop over the merchant groups
PushedFrom(groups, k, now, tz) ==
    IF k > Len(groups) THEN <<>>
    ELSE SubscriptionOf(groups[k][1], groups[k][2], now, tz) \o PushedFrom(groups, k + 1, now, tz)

\* the comparator of the final sort is negative: a goes before b
SortsBefore(a, b) ==
    IF a.confidence # b.confidence THEN a.confidence > b.confidence ELSE a.amount > b.amount

RECURSIVE SortSubscriptions(_)
\* subscriptions.sort(by confidence, then amount, both descending); the sort is stable
SortSubscriptions(subscriptions) ==
    Let(subscriptions, LAMBDA subs :
        IF Len(subs) = 0 THEN <<>>
        ELSE Let(CHOOSE i \in 1..Len(subs) :
                     /\ \A j \in 1..Len(subs) : ~SortsBefore(subs[j], subs[i])
                     /\ \A j \in 1..(i - 1) : SortsBefore(subs[i], subs[j]),
                 LAMBDA first :
                     <<subs[first]>> \o SortSubscriptions(SubSeq(subs, 1, first - 1)
                                                          \o SubSeq(subs, first + 1, Len(subs)))))

detectSubscriptions(transactions, now, tz) ==
    Let(groupByMerchant(transactions), LAMBDA merchantGroups :
        SortSubscriptions(PushedFrom(merchantGroups, 1, now, tz)))

(***************************************************************************)
(* Subscription detection: detectSubscriptions on the charges of one       *)
(* streaming merchant among other transactions.                            *)
(***************************************************************************)
MaxCharges == 3

\* days between consecutive charges
ChargeGaps == {7, 14, 30, 35}

\* day of the first charge
FirstCharge == UTCDate(2024, 0, 10)

\* time from midnight UTC of the last charge's day to the call, in minutes: the day before,
\* the same day, 10 days, 45 days, 45 days 6 hours, 45 days 12 hours, 46 days, 100 days
CallDelays == {-1440, 0, 14400, 64800, 65160, 65520, 66240, 144000}

RECURSIVE ChargeDay(_, _)
\* the day number of charge k of a series with the given gaps
ChargeDay(gaps, k) == IF k = 1 THEN 0 ELSE ChargeDay(gaps, k - 1) + gaps[k - 1]

\* the charges of the streaming merchant: equal amounts, or the last one raised
Charges(gaps, raised) ==
    [k \in 1..(Len(gaps) + 1) |->
        [id |-> <<"t", k>>,
         date |-> ToISODate(FirstCharge + ChargeDay(gaps, k) * MinutesPerDay),
         amount |-> IF raised /\ k = Len(gaps) + 1 THEN -1499 ELSE -999,
         currency |-> "GBP", merchant_canonical |-> "Netflix"]]

\* transactions of other merchants: none of them has two expenses
OtherTransactions ==
    { <<>>,
      << [id |-> <<"o", 1>>, date |-> "2024-02-01", amount |-> -450, currency |-> "GBP",
          merchant_canonical |-> "Tesco"],
         [id |-> <<"o", 2>>, date |-> "2024-03-02", amount |-> 450, currency |-> "GBP",
          merchant_canonical |-> "Tesco"] >> }

Reverse(seq) == [i \in 1..Len(seq) |-> seq[Len(seq) + 1 - i]]

SubsInit ==
    /\ \E n \in 2..MaxCharges :
          \E gaps \in [1..(n - 1) -> ChargeGaps], raised \in BOOLEAN,
             others \in OtherTransactions, newestFirst \in BOOLEAN, delay \in CallDelays :
              /\ sTransactions =
                    IF newestFirst THEN Reverse(Charges(gaps, raised)) \o others
                    ELSE others \o Charges(gaps, raised)
              /\ sNow = FirstCharge + ChargeDay(gaps, n) * MinutesPerDay + delay
    /\ sTz \in {0, 60}
    /\ sSubscriptions = NotCalled

DetectSubscriptions ==
    /\ sSubscriptions = NotCalled
    /\ sSubscriptions' = Returned(detectSubscriptions(sTransactions, sNow, sTz))
    /\ UNCHANGED <<sTransactions, sNow, sTz>>
    /\ Frame("subs")

InitSubs == SubsInit /\ OthersIdle("subs")

NextSubs == DetectSubscriptions

SpecSubs == InitSubs /\ [][NextSubs]_vars

\* the expenses of a merchant among the transactions handed in, oldest first
ExpensesOf(merchant) ==
    SortByDate(SelectSeq(sTransactions,
                         LAMBDA t : t.merchant_canonical = merchant /\ t.amount < 0))

MerchantsOf == {sTransactions[i].merchant_canonical : i \in 1..Len(sTransactions)}

\* the merchant has n >= 2 expenses of equal amounts, 30 days apart, and no other merchant
\* has two expenses
MonthlySeries(merchant) ==
    Let(ExpensesOf(merchant), LAMBDA e :
        /\ Len(e) >= 2
        /\ \A i \in 1..Len(e) : e[i].amount = e[1].amount
        /\ \A i \in 1..(Len(e) - 1) :
              GetTime(e[i + 1].date) - GetTime(e[i].date) = 30 * MinutesPerDay
        /\ \A other \in MerchantsOf \ {merchant} : Len(ExpensesOf(other)) < 2)

\* minutes from the merchant's last charge (midnight UTC of its date) to the call
SinceLastCharge(merchant) ==
    sNow - GetTime(ExpensesOf(merchant)[Len(ExpensesOf(merchant))].date)

\* one monthly Subscription for the merchant, with confidence at least 0.5
OneMonthly(merchant) ==
    /\ Len(sSubscriptions.value) = 1
    /\ sSubscriptions.value[1].merchant = merchant
    /\ sSubscriptions.value[1].cadence = "monthly"
    /\ sSubscriptions.value[1].confidence >= 500
    /\ sSubscriptions.value[1].status \in {"active", "cancelled"}

\* C9 as stated: for such a series detectSubscriptions returns exactly one Subscription,
\* monthly, with confidence at least 0.5, and active exactly when the last charge is at
\* most 45 days before the time of the call.
C9_ActiveWithin45Days ==
    sSubscriptions.called =>
        \A merchant \in MerchantsOf : MonthlySeries(merchant) =>
            /\ OneMonthly(merchant)
            /\ sSubscriptions.value[1].status = "active"
                  <=> SinceLastCharge(merchant) <= 45 * MinutesPerDay

\* C9 amended: ... and active exactly when the time since the last charge, rounded to the
\* nearest whole day (halves up), is at most 45 days, that is when it is less than 45 days
\* and 12 hours.
C9_ActiveWithin45RoundedDays ==
    sSubscriptions.called =>
        \A merchant \in MerchantsOf : MonthlySeries(merchant) =>
            /\ OneMonthly(merchant)
            /\ sSubscriptions.value[1].status = "active"
                  <=> RoundDiv(SinceLastCharge(merchant), MinutesPerDay) <= 45
            /\ sSubscriptions.value[1].status = "active"
                  <=> SinceLastCharge(merchant) < 45 * MinutesPerDay + 720

\* three Netflix charges 30 days apart, the call 45 days and 6 hours after the last one
C9_Witness ==
    /\ sSubscriptions.called
    /\ MonthlySeries("Netflix") /\ Len(ExpensesOf("Netflix")) = 3
    /\ SinceLastCharge("Netflix") = 45 * MinutesPerDay + 360
    /\ Len(sSubscriptions.value) = 1 /\ sSubscriptions.value[1].status = "active"

(***************************************************************************)
(* Delimited files: detectColumnMapping, parseAmount, parseCSVRow and      *)
(* parseCSVRows.  A row is the sequence of its cells in the order of the   *)
(* headers; the cells are strings, as the CSV reader delivers them.        *)
(***************************************************************************)
RECURSIVE RemoveChars(_, _, _)
\* s without the characters of chars, from position i on
RemoveChars(s, chars, i) ==
    IF i > Len(s) THEN ""
    ELSE IF CharIn(Char(s, i), chars) THEN RemoveChars(s, chars, i + 1)
         ELSE Char(s, i) \o RemoveChars(s, chars, i + 1)

\* parseFloat of a string without leading blanks and without an exponent: the longest
\* prefix sign, digits, point, digits; [nan, value], the value in hundredths (amounts of
\* the model have at most two decimals)
ParseFloat(str) ==
    Let(str, LAMBDA s :
    Let(IF Slice(s, 1, 1) = "-" \/ Slice(s, 1, 1) = "+" THEN 1 ELSE 0, LAMBDA sg :
    Let(LeadingRun(s, sg + 1, "digit"), LAMBDA a :
    Let(IF Slice(s, sg + a + 1, sg + a + 1) = "." THEN LeadingRun(s, sg + a + 2, "digit") ELSE 0,
        LAMBDA b :
        IF a + b = 0 THEN [nan |-> TRUE, value |-> 0]
        ELSE [nan |-> FALSE,
              value |-> (IF Slice(s, 1, 1) = "-" THEN -1 ELSE 1)
                        * (ParseInt(Slice(s, sg + 1, sg + a)) * 100
                           + ParseInt(Slice(Slice(s, sg + a + 2, sg + a + 1 + b) \o "00", 1, 2)))]))))

\* '-' + cleaned.slice(1, -1) when cleaned is wrapped in parentheses
Unparenthesize(cleaned) ==
    IF StartsWith(cleaned, "(") /\ EndsWith(cleaned, ")")
    THEN "-" \o Slice(cleaned, 2, Len(cleaned) - 1)
    ELSE cleaned

\* parseAmount of the delimited path; "$" stands for each of the currency signs
parseAmount(amountStr) ==
    IF amountStr = NULL \/ amountStr = "" THEN Returned(0)
    ELSE Let(ParseFloat(Unparenthesize(RemoveChars(Trim(amountStr), "$, ", 1))), LAMBDA amount :
             IF amount.nan THEN Threw("Unable to parse amount: " \o amountStr)
             ELSE Returned(amount.value))

RECURSIVE FirstHeader(_, _, _, _)
\* the index of the first header that matches the first pattern, from pattern k on, that
\* any header matches; 0 when no pattern matches a header
FirstHeader(lowerHeaders, patterns, k, exact) ==
    IF k > Len(patterns) THEN 0
    ELSE LET hit(h) == IF exact THEN h = patterns[k] \/ h = "amount" ELSE Includes(h, patterns[k])
         IN  IF \E i \in 1..Len(lowerHeaders) : hit(lowerHeaders[i])
             THEN CHOOSE i \in 1..Len(lowerHeaders) :
                      hit(lowerHeaders[i]) /\ \A j \in 1..(i - 1) : ~hit(lowerHeaders[j])
             ELSE FirstHeader(lowerHeaders, patterns, k + 1, exact)

\* the header a field is mapped to, NULL when the field stays unmapped
MappedHeader(headers, patterns, exact) ==
    Let([i \in 1..Len(headers) |-> Trim(ToLowerCase(headers[i]))], LAMBDA lowerHeaders :
    Let(FirstHeader(lowerHeaders, patterns, 1, exact), LAMBDA index :
        IF index = 0 THEN NULL ELSE headers[index]))

detectColumnMapping(headers) ==
    [date |-> MappedHeader(headers, <<"date", "transaction date", "posted date", "trans date",
                                      "value date">>, FALSE),
     description |-> MappedHeader(headers, <<"description", "merchant", "details",
                                             "transaction", "narrative">>, FALSE),
     amount |-> MappedHeader(headers, <<"amount", "value", "transaction amount">>, TRUE),
     debit |-> MappedHeader(headers, <<"debit", "paid out", "withdrawal">>, FALSE),
     credit |-> MappedHeader(headers, <<"credit", "paid in", "deposit">>, FALSE),
     currency |-> MappedHeader(headers, <<"currency", "ccy">>, FALSE),
     balance |-> MappedHeader(headers, <<"balance", "running balance">>, FALSE)]

\* row[name]: the cell under the header name, NULL (undefined) when there is none
Cell(row, headers, name) ==
    IF \E i \in 1..Len(headers) : headers[i] = name
    THEN row[CHOOSE i \in 1..Len(headers) : headers[i] = name]
    ELSE NULL

\* a || b on strings
OrElse(a, b) == IF a = NULL \/ a = "" THEN b ELSE a

\* the transaction parseCSVRow builds
CsvTransaction(id, date, amount, row, headers, mapping, source) ==
    Let(OrElse(Cell(row, headers, mapping.description), ""), LAMBDA description :
    Let(OrElse(extractMerchantFromDescription(description), description), LAMBDA merchant_raw :
        [id |-> id, date |-> date, amount |-> amount,
         currency |-> OrElse(Cell(row, headers, mapping.currency), "GBP"),
         merchant_raw |-> merchant_raw,
         merchant_canonical |-> getCanonicalName(merchant_raw),
         description |-> description, source |-> source,
         category |-> "Unknown", confidence |-> 0]))

\* the amount of a row with a debit and a credit cell, the credit cell looked at first
SplitAmount_CreditFirst(debit, credit) ==
    IF credit # 0 THEN Abs(credit) ELSE IF debit # 0 THEN -Abs(debit) ELSE 0

\* the amount of a row with a debit and a credit cell
SplitAmount(debit, credit) ==
    IF debit # 0 THEN -Abs(debit) ELSE IF credit # 0 THEN Abs(credit) ELSE 0

\* the amount of a row: Returned(amount) or the Error of the first parseAmount that throws
RowAmount(row, headers, mapping) ==
    IF mapping.amount # NULL THEN parseAmount(Cell(row, headers, mapping.amount))
    ELSE IF mapping.debit # NULL /\ mapping.credit # NULL
    THEN Let(parseAmount(Cell(row, headers, mapping.debit)), LAMBDA debit :
         Let(parseAmount(Cell(row, headers, mapping.credit)), LAMBDA credit :
             IF ~debit.ok THEN debit
             ELSE IF ~credit.ok THEN credit
             ELSE Returned(SplitAmount(debit.value, credit.value))))
    ELSE Returned(0)

\* parseCSVRow; id is the identifier generateId() hands out
parseCSVRow(row, headers, mapping, source, tz, id) ==
    Let(Cell(row, headers, mapping.date), LAMBDA dateStr :
        IF dateStr = NULL \/ dateStr = "" THEN Returned(NoTransaction)
        ELSE Let(parseDate(dateStr, tz), LAMBDA date :
             IF ~date.ok THEN date
             ELSE Let(RowAmount(row, headers, mapping), LAMBDA amount :
                  IF ~amount.ok THEN amount
                  ELSE IF amount.value = 0 THEN Returned(NoTransaction)
                  ELSE Returned(CsvTransaction(id, date.value, amount.value, row, headers,
                                               mapping, source)))))

\* generateId(): a fresh identifier; the model numbers them by the row they are made for
generateId(i) == "id" \o DigitString(i, 2)

RECURSIVE RowsFrom(_, _, _, _, _, _)
\* the loop of parseCSVRows from row i on: the transactions pushed and the warnings logged
RowsFrom(rows, headers, mapping, source, tz, i) ==
    IF i > Len(rows) THEN [transactions |-> <<>>, warnings |-> <<>>]
    ELSE Let(parseCSVRow(rows[i], headers, mapping, source, tz, generateId(i)), LAMBDA transaction :
         Let(RowsFrom(rows, headers, mapping, source, tz, i + 1), LAMBDA rest :
             IF ~transaction.ok
             THEN [transactions |-> rest.transactions,
                   warnings |-> <<[row |-> i, error |-> transaction.value]>> \o rest.warnings]
             ELSE IF transaction.value = NoTransaction THEN rest
             ELSE [transactions |-> <<transaction.value>> \o rest.transactions,
                   warnings |-> rest.warnings]))

\* parseCSVRows: [result, warnings]
parseCSVRows(rows, headers, source, tz) ==
    IF Len(rows) = 0 THEN [result |-> Threw("CSV file is empty"), warnings |-> <<>>]
    ELSE Let(RowsFrom(rows, headers, detectColumnMapping(headers), source, tz, 1), LAMBDA done :
             [result |-> Returned(done.transactions), warnings |-> done.warnings])

(***************************************************************************)
(* Delimited files: parseCSVRow on one row and parseCSVRows on the file.   *)
(***************************************************************************)
MaxRows == 3

\* the columns of a file: its headers and the field each column carries
Layouts ==
    { [headers |-> <<"Date", "Description", "Debit", "Credit">>,
       fields |-> <<"date", "description", "debit", "credit">>],
      [headers |-> <<"Date", "Details", "Paid out", "Paid in", "Currency">>,
       fields |-> <<"date", "description", "debit", "credit", "currency">>],
      [headers |-> <<"Transaction Date", "Merchant", "Amount">>,
       fields |-> <<"date", "description", "amount">>] }

\* date cells that spell a calendar date, and date cells that do not
ParseableDates == {"05/03/2024", "2024-03-06"}

DateCells == ParseableDates \cup {"", "n/a"}

\* amount cells, each with what it holds: a number other than zero, zero, nothing, or no number
AmountCells ==
    { [text |-> "", holds |-> "empty"], [text |-> "0.00", holds |-> "zero"],
      [text |-> "12.50", holds |-> "nonzero"],
      [text |-> "-12.50", holds |-> "nonzero"], [text |-> "$1,234.56", holds |-> "nonzero"],
      [text |-> "(45.00)", holds |-> "nonzero"], [text |-> "n/a", holds |-> "other"] }

AmountTexts == {c.text : c \in AmountCells}

\* the cells of the single amount column
SignedCells == {[text |-> "-4.50", holds |-> "nonzero"], [text |-> "-12.50", holds |-> "nonzero"],
                [text |-> "1,234.56", holds |-> "nonzero"]}

\* what an amount cell of the model holds
Holds(text) == (CHOOSE c \in AmountCells \cup SignedCells : c.text = text).holds

\* the cells of a row by field
RowFields ==
    [date : DateCells \ {"2024-03-06"}, description : {"TESCO"},
     debit : AmountTexts, credit : AmountTexts, amount : {"-4.50"}, currency : {"EUR"}]

\* the rows the files of several rows are made of: an expense, an income, a row without a
\* date and a row with an unreadable date
ListedRows ==
    { [date |-> "05/03/2024", description |-> "TESCO", debit |-> "12.50",
       credit |-> "", amount |-> "-12.50", currency |-> "GBP"],
      [date |-> "2024-03-06", description |-> "NETFLIX", debit |-> "",
       credit |-> "$1,234.56", amount |-> "1,234.56", currency |-> ""],
      [date |-> "", description |-> "TESCO", debit |-> "12.50",
       credit |-> "", amount |-> "-4.50", currency |-> "GBP"],
      [date |-> "n/a", description |-> "NETFLIX", debit |-> "12.50",
       credit |-> "", amount |-> "-4.50", currency |-> "GBP"] }

\* the row of a file with the given fields
RowOf(layout, r) == [i \in 1..Len(layout.fields) |-> r[layout.fields[i]]]

CsvInit ==
    /\ \E layout \in Layouts :
        /\ csvHeaders = layout.headers
        /\ \/ \E r \in RowFields : csvRows = <<RowOf(layout, r)>>
           \/ \E n \in 2..MaxRows : \E rs \in [1..n -> ListedRows] :
                 csvRows = [i \in 1..n |-> RowOf(layout, rs[i])]
    /\ csvTz \in {0, 60}
    /\ csvRow = NotCalled
    /\ csvTransactions = NotCalled
    /\ csvWarnings = <<>>

\* parseCSVRow on a row of the file, with the mapping parseCSVRows detects
ParseCSVRow ==
    /\ csvRow = NotCalled /\ csvTransactions = NotCalled
    /\ \E i \in 1..Len(csvRows) :
          csvRow' = [called |-> TRUE, index |-> i,
                     result |-> parseCSVRow(csvRows[i], csvHeaders,
                                            detectColumnMapping(csvHeaders), "statement.csv",
                                            csvTz, generateId(i))]
    /\ UNCHANGED <<csvHeaders, csvRows, csvTz, csvTransactions, csvWarnings>>
    /\ Frame("csv")

ParseCSVRows ==
    /\ csvRow = NotCalled /\ csvTransactions = NotCalled
    /\ LET done == parseCSVRows(csvRows, csvHeaders, "statement.csv", csvTz)
       IN  /\ csvTransactions' = done.result
           /\ csvWarnings' = csvWarnings \o done.warnings
    /\ UNCHANGED <<csvHeaders, csvRows, csvTz, csvRow>>
    /\ Frame("csv")

InitCsv == CsvInit /\ OthersIdle("csv")

NextCsv ==
    \/ ParseCSVRow
    \/ ParseCSVRows

SpecCsv == InitCsv /\ [][NextCsv]_vars

\* the text of a field of row i of the file, NULL when the file has no such column
FieldText(mapping, i, field) == Cell(csvRows[i], csvHeaders, mapping[field])

\* the file has a debit/credit column pair and no single amount column
SplitColumns(mapping) ==
    mapping.amount = NULL /\ mapping.debit # NULL /\ mapping.credit # NULL

Produced(result) == result.ok /\ result.value # NoTransaction

\* C1: with a debit/credit pair and no amount column, for a row with a parseable date,
\* only the debit cell nonzero gives amount < 0, only the credit cell nonzero gives
\* amount > 0, both nonzero gives amount < 0 (the debit wins), and both zero or empty
\* gives no transaction.
C1_DebitCreditSign ==
    csvRow.called =>
        Let(detectColumnMapping(csvHeaders), LAMBDA mapping :
            (SplitColumns(mapping) /\ FieldText(mapping, csvRow.index, "date") \in ParseableDates) =>
                Let(Holds(FieldText(mapping, csvRow.index, "debit")), LAMBDA debit :
                Let(Holds(FieldText(mapping, csvRow.index, "credit")), LAMBDA credit :
                    /\ (debit = "nonzero" /\ credit \in {"zero", "empty"}) =>
                          Produced(csvRow.result) /\ csvRow.result.value.amount < 0
                    /\ (credit = "nonzero" /\ debit \in {"zero", "empty"}) =>
                          Produced(csvRow.result) /\ csvRow.result.value.amount > 0
                    /\ (debit = "nonzero" /\ credit = "nonzero") =>
                          Produced(csvRow.result) /\ csvRow.result.value.amount < 0
                    /\ (debit \in {"zero", "empty"} /\ credit \in {"zero", "empty"}) =>
                          csvRow.result = Returned(NoTransaction))))

\* a row with debit 12.50 and credit 1,234.56 became an expense of 12.50
C1_Witness ==
    csvRow.called /\
        Let(detectColumnMapping(csvHeaders), LAMBDA mapping :
            /\ SplitColumns(mapping)
            /\ FieldText(mapping, csvRow.index, "date") \in ParseableDates
            /\ FieldText(mapping, csvRow.index, "debit") = "12.50"
            /\ FieldText(mapping, csvRow.index, "credit") = "$1,234.56"
            /\ Produced(csvRow.result) /\ csvRow.result.value.amount = -1250)

\* row i is well formed: a parseable date and an amount other than zero
WellFormed(mapping, i) ==
    /\ FieldText(mapping, i, "date") \in ParseableDates
    /\ IF SplitColumns(mapping)
       THEN Let({Holds(FieldText(mapping, i, "debit")), Holds(FieldText(mapping, i, "credit"))},
                LAMBDA held : held \subseteq {"nonzero", "zero", "empty"} /\ "nonzero" \in held)
       ELSE Holds(FieldText(mapping, i, "amount")) = "nonzero"

\* exactly one row of the file has an empty date and the other rows are well formed
OneMissingDate(mapping) ==
    /\ Cardinality({i \in 1..Len(csvRows) : FieldText(mapping, i, "date") = ""}) = 1
    /\ \A i \in 1..Len(csvRows) : FieldText(mapping, i, "date") = "" \/ WellFormed(mapping, i)

\* the rows of the file that have a date, in source order
DatedRows(mapping) ==
    SelectSeq([i \in 1..Len(csvRows) |-> i], LAMBDA i : FieldText(mapping, i, "date") # "")

\* parseCSVRows returned one transaction for each dated row, in source order
OthersInOrder(mapping) ==
    Let(DatedRows(mapping), LAMBDA dated :
        /\ csvTransactions.ok
        /\ Len(csvTransactions.value) = Len(dated)
        /\ \A k \in 1..Len(dated) :
              /\ csvTransactions.value[k].id = generateId(dated[k])
              /\ csvTransactions.value[k].description = FieldText(mapping, dated[k], "description"))

\* C4 as stated: for a file in which exactly one row has an empty date and the others are
\* well formed, parseCSVRows returns the other transactions in source order, throws
\* nothing and logs exactly one warning for the dropped row.
C4_MissingDateWarned ==
    csvTransactions.called =>
        Let(detectColumnMapping(csvHeaders), LAMBDA mapping :
            OneMissingDate(mapping) =>
                /\ OthersInOrder(mapping)
                /\ Len(csvWarnings) = 1
                /\ FieldText(mapping, csvWarnings[1].row, "date") = "")

\* the part of C4 the code keeps: the other transactions are returned in source order
\* and nothing is thrown
C4_OthersKept ==
    csvTransactions.called =>
        Let(detectColumnMapping(csvHeaders), LAMBDA mapping :
            OneMissingDate(mapping) => OthersInOrder(mapping))

\* a file of three rows, one of them without a date, parsed into two transactions and
\* no warning
C4_Dropped ==
    csvTransactions.called /\ Len(csvRows) = 3 /\ csvWarnings = <<>> /\
        Let(detectColumnMapping(csvHeaders), LAMBDA mapping :
            OneMissingDate(mapping) /\ OthersInOrder(mapping))

\* the delimited part of C2: no transaction of parseCSVRows or parseCSVRow has amount 0
CsvNoZeroAmount ==
    /\ (csvRow.called /\ Produced(csvRow.result)) => csvRow.result.value.amount # 0
    /\ (csvTransactions.called /\ csvTransactions.ok) =>
          \A k \in 1..Len(csvTransactions.value) : csvTransactions.value[k].amount # 0

(***************************************************************************)
(* Rendered-document lines: parseAmount of the document path and           *)
(* parseGenericTransactionLine.                                            *)
(***************************************************************************)
\* parseAmount of the document path (schema.ts); "$" stands for each of the currency signs
pdfParseAmount(amountStr) ==
    Let(RemoveChars(Unparenthesize(RemoveChars(Trim(amountStr), "$ ", 1)), ",", 1), LAMBDA cleaned :
    Let(ParseFloat(cleaned), LAMBDA amount :
        IF amount.nan THEN Threw("Unable to parse amount: " \o amountStr)
        ELSE Returned(amount.value)))

\* u, a run of digits, commas and points, matches /^\d+[,.]?\d*\.?\d{0,2}$/
IsAmountNumber(u) ==
    Let(LeadingRun(u, 1, "digit"), LAMBDA a :
        /\ a >= 1
        /\ \/ a = Len(u)
           \/ Let(LeadingRun(u, a + 2, "digit"), LAMBDA b :
                  \/ a + 1 + b = Len(u)
                  \/ /\ Slice(u, a + b + 2, a + b + 2) = "."
                     /\ LeadingRun(u, a + b + 3, "digit") <= 2
                     /\ a + b + 2 + LeadingRun(u, a + b + 3, "digit") = Len(u)))

\* the text after a description matched against /^\s+([-£$€]?\s*\d+[,.]?\d*\.?\d{0,2})\s*$/,
\* or with a balance, /^\s+(...)\s+\d+[,.]?\d*\.?\d{0,2}\s*$/: [matched, amountStr]
AmountTail(text, withBalance) ==
    Let(text, LAMBDA t :
    Let(LeadingRun(t, 1, "space"), LAMBDA s1 :
    Let(IF Slice(t, s1 + 1, s1 + 1) = "-" \/ Slice(t, s1 + 1, s1 + 1) = "$" THEN 1 ELSE 0,
        LAMBDA sign :
    Let(s1 + sign + LeadingRun(t, s1 + sign + 1, "space") + 1, LAMBDA numAt :
    Let(numAt + LeadingRun(t, numAt, "numberChar") - 1, LAMBDA numEnd :
    Let(LeadingRun(t, numEnd + 1, "space"), LAMBDA s3 :
    Let(LeadingRun(t, numEnd + s3 + 1, "numberChar"), LAMBDA balance :
        [matched |->
            /\ s1 >= 1
            /\ IsAmountNumber(Slice(t, numAt, numEnd))
            /\ IF withBalance
               THEN /\ s3 >= 1
                    /\ IsAmountNumber(Slice(t, numEnd + s3 + 1, numEnd + s3 + balance))
                    /\ numEnd + s3 + balance
                         + LeadingRun(t, numEnd + s3 + balance + 1, "space") = Len(t)
               ELSE numEnd + s3 = Len(t),
         amountStr |-> Slice(t, s1 + 1, numEnd)])))))))

\* the text after a date matched against /^\s+(.+?)\s+(amount)...$/: the blanks are taken
\* greedily, the description lazily; [matched, description, amountStr]
DescriptionAndAmount(text, withBalance) ==
    Let(text, LAMBDA t :
    Let(LeadingRun(t, 1, "space"), LAMBDA blanks :
    Let({e \in 2..Len(t) : AmountTail(Substring(t, e), withBalance).matched}, LAMBDA ends :
        IF blanks = 0 \/ ends = {} THEN [matched |-> FALSE, description |-> "", amountStr |-> ""]
        ELSE Let(IF \E e \in ends : e > blanks
                 THEN CHOOSE e \in ends : e > blanks /\ \A x \in ends : x > blanks => e <= x
                 ELSE CHOOSE e \in ends : \A x \in ends : x <= e, LAMBDA e :
                 [matched |-> TRUE,
                  description |-> Slice(t, IF e > blanks THEN blanks + 1 ELSE e, e),
                  amountStr |-> AmountTail(Substring(t, e), withBalance).amountStr]))))

\* the first blank-delimited token of a line
FirstToken(line) == IF Includes(line, " ") THEN SubSeq(line, 1, IndexOf(line, " ") - 1) ELSE line

\* where the date of pattern k ends in the line, 0 when the line does not start with such a date
DateEnd(line, k) ==
    Let(NamedDate(line), LAMBDA n :
    Let(NumericDate(FirstToken(line)), LAMBDA f :
        CASE k = 1 -> IF n.head /\ n.s2 >= 1 THEN n.a + n.s1 + n.l ELSE 0
          [] k = 2 -> IF MatchesDMY(f, 2..4) THEN Len(FirstToken(line)) ELSE 0
          [] k = 3 -> IF MatchesISO(f, {2}) THEN Len(FirstToken(line)) ELSE 0
          [] k = 4 -> IF n.head /\ n.s2 >= 1 /\ n.c = 4 THEN n.end ELSE 0))

\* line.match(patterns[k]): [matched, dateStr, description, amountStr]
MatchPattern(line, k) ==
    Let(DateEnd(line, k), LAMBDA dateEnd :
    Let(DescriptionAndAmount(Substring(line, dateEnd), k = 3), LAMBDA rest :
        [matched |-> dateEnd > 0 /\ rest.matched,
         dateStr |-> Slice(line, 1, dateEnd),
         description |-> rest.description,
         amountStr |-> rest.amountStr]))

\* the transaction parseGenericTransactionLine builds
LineTransaction(id, date, amount, description) ==
    Let(OrElse(extractMerchantFromDescription(description), description), LAMBDA merchant_raw :
        [id |-> id, date |-> date, amount |-> amount, currency |-> "GBP",
         merchant_raw |-> merchant_raw,
         merchant_canonical |-> getCanonicalName(merchant_raw),
         description |-> Trim(description),
         category |-> "Unknown", confidence |-> 0])

RECURSIVE PatternsFrom(_, _, _, _)
\* the loop of parseGenericTransactionLine from pattern k on: [transaction, warnings]
PatternsFrom(line, tz, now, k) ==
    IF k > 4 THEN [transaction |-> NoTransaction, warnings |-> <<>>]
    ELSE Let(MatchPattern(line, k), LAMBDA match :
         IF ~match.matched THEN PatternsFrom(line, tz, now, k + 1)
         ELSE Let(parseFlexibleDate(match.dateStr, tz, now), LAMBDA date :
              Let(pdfParseAmount(match.amountStr), LAMBDA amount :
                  IF date.ok /\ amount.ok
                  THEN [transaction |-> LineTransaction(generateId(k), date.value, amount.value,
                                                        match.description),
                        warnings |-> <<>>]
                  ELSE Let(PatternsFrom(line, tz, now, k + 1), LAMBDA rest :
                           [transaction |-> rest.transaction,
                            warnings |-> <<IF date.ok THEN amount.value ELSE date.value>>
                                         \o rest.warnings]))))

parseGenericTransactionLine(line, tz, now) == PatternsFrom(line, tz, now, 1)

(***************************************************************************)
(* Rendered-document lines: parseGenericTransactionLine on one line.       *)
(***************************************************************************)
\* lines of rendered statements
StatementLines ==
    {"01 Sep TESCO 12.95", "01 Sep TESCO -12.95", "01 Sep TESCO 0.00", "01 Sep TESCO 0",
     "15/09/2024 NETFLIX 29.99", "15/09/2024 NETFLIX 0.00", "15/09/2024 NETFLIX $ 1,234.56",
     "2024-09-01 SHELL -45.20 100.00", "2024-09-01 SHELL 0.00 100.00", "2024-09-01 SHELL 45.20",
     "01 Sep 2024 TESCO 12.95", "01 Sep 2024 TESCO 0.00", "01 Sep TESCO 12.95 100.00",
     "Balance brought forward", "01 Sep TESCO", "31 Dec GREGGS 3.10",
     "01 Sep 2023 TESCO 12.95", "2 September 2022 SHELL FUEL -45.20"}

LineInit ==
    /\ gLine \in StatementLines
    /\ gTz \in {-300, 0, 60}
    /\ gNow \in {UTCDate(2024, 9, 15) + 600, UTCDate(2025, 0, 1) + 30}
    /\ gTransaction = NotCalled
    /\ gWarnings = <<>>

ParseGenericTransactionLine ==
    /\ gTransaction = NotCalled
    /\ LET done == parseGenericTransactionLine(gLine, gTz, gNow)
       IN  /\ gTransaction' = Returned(done.transaction)
           /\ gWarnings' = gWarnings \o done.warnings
    /\ UNCHANGED <<gLine, gTz, gNow>>
    /\ Frame("line")

InitLine == LineInit /\ OthersIdle("line")

NextLine == ParseGenericTransactionLine

SpecLine == InitLine /\ [][NextLine]_vars

\* C2 as stated: no transaction produced by a format parser has amount 0, for the
\* delimited-row parser and for the generic rendered-document line parser, lines whose
\* amount text is "0.00" included.
C2_NoZeroAmount ==
    /\ CsvNoZeroAmount
    /\ (gTransaction.called /\ Produced(gTransaction)) => gTransaction.value.amount # 0

\* a line whose amount text is "0.00" became a transaction of amount 0
C2_ZeroEmitted ==
    /\ gTransaction.called /\ Produced(gTransaction)
    /\ gLine = "01 Sep TESCO 0.00"
    /\ gTransaction.value.amount = 0 /\ gTransaction.value.merchant_canonical = "Tesco"

(***************************************************************************)
(* Classification: the worst case of the cascade.                          *)
(***************************************************************************)
\* no stage of the cascade matches the transaction: no table entry, no edge-case predicate
\* and no keyword of any category
NothingMatches(transaction) ==
    /\ lookupMerchant(transaction.merchant_raw) = NoMetadata
    /\ EdgeTrue(transaction) = {}
    /\ \A k \in 1..Len(CATEGORY_CONFIG) :
          MatchCount(CATEGORY_CONFIG[k],
                     ToLowerCase(transaction.merchant_canonical) \o " "
                        \o ToLowerCase(transaction.description)) = 0

\* C11 as stated: categorizeTransaction returns a result for every transaction; when no
\* stage matches it returns category Unknown with confidence 0.3 for every amount, and
\* no result of the cascade has confidence below 0.3.
C11_WorstCaseUnknown ==
    cResult # NotCalled =>
        /\ cResult.method \in {"known_merchant", "edge_case", "fallback"}
        /\ NothingMatches(cTxn) => cResult.category = "Unknown" /\ cResult.confidence = 30
        /\ cResult.confidence >= 30

\* the part of C11 the code keeps: a result is always returned, and when no stage matches
\* its category is Unknown
C11_AlwaysUnknown ==
    cResult # NotCalled =>
        /\ cResult.method \in {"known_merchant", "edge_case", "fallback"}
        /\ NothingMatches(cTxn) => cResult.category = "Unknown" /\ cResult.method = "fallback"

\* a transaction of 0.50 that nothing matches, classified Unknown with confidence 0.18
C11_BelowFloor ==
    /\ cResult # NotCalled /\ NothingMatches(cTxn) /\ cTxn.amount = 50
    /\ cResult.category = "Unknown" /\ cResult.confidence = 18

(***************************************************************************)
(* The confidence of a transaction over its life: created by a parser,     *)
(* classified by categorizeTransactions, overwritten by corrections        *)
(* propagated from similar transactions, raised by user confirmations.     *)
(***************************************************************************)
MaxLedger == 2

MaxCalls == 2

\* boostConfidenceAfterConfirmation without the Math.min cap
boostConfidenceAfterConfirmation_NoCap(transaction, boost) ==
    [transaction EXCEPT
        !.confidence = transaction.confidence + boost,
        !.notes = (IF transaction.notes = NULL THEN "" ELSE transaction.notes)
                      \o " [User confirmed]"]

boostConfidenceAfterConfirmation(transaction, boost) ==
    [transaction EXCEPT
        !.confidence = Min(100, transaction.confidence + boost),
        !.notes = (IF transaction.notes = NULL THEN "" ELSE transaction.notes)
                      \o " [User confirmed]"]

\* the default value of the boost parameter
DefaultBoost == 30

\* categorizeTransaction throws a TypeError when the merchant table has no entry and
\* checkEdgeCases dereferences a missing merchant_canonical
categorizeTransactionThrows(transaction) ==
    /\ lookupMerchant(transaction.merchant_raw) = NoMetadata
    /\ transaction.merchant_canonical = NULL

\* onProgress(i + 1, transactions.length) of loop round i: the arguments of the call
ProgressZeroBased(i, total) == <<i, total>>

ProgressArguments(i, total) == <<i + 1, total>>

\* the object one round of the loop pushes: the transaction with the result of
\* categorizeTransaction, or with the values of the catch branch when it throws
CategorizedRecord(transaction) ==
    IF categorizeTransactionThrows(transaction)
    THEN [transaction EXCEPT !.category = "Unknown", !.confidence = 0,
                             !.notes = "Categorization failed"]
    ELSE Let(categorizeTransaction(transaction),
             LAMBDA result :
                [transaction EXCEPT !.category = result.category,
                                    !.subcategory = result.subcategory,
                                    !.confidence = result.confidence,
                                    !.notes = result.notes])

\* the array categorizeTransactions returns
categorizeTransactions(transactions) ==
    [i \in 1..Len(transactions) |-> CategorizedRecord(transactions[i])]

\* a transaction as every parser creates it: category Unknown, confidence 0
LedgerTransaction(i, merchant_raw, merchant_canonical, description, amount) ==
    [id |-> generateId(i), merchant_raw |-> merchant_raw,
     merchant_canonical |-> merchant_canonical, description |-> description,
     amount |-> amount, category |-> "Unknown", subcategory |-> NULL, confidence |-> 0,
     notes |-> NULL]

\* merchant_raw, description, amount of the statement's entries: a known merchant, an
\* edge case (a transfer to a person), an entry below 1.00 that nothing matches; the
\* last one is a record that lost its merchant_canonical (the only input on which
\* categorizeTransaction throws)
LedgerEntries ==
    << <<"TESCO", "card purchase", -450, TRUE>>,
       <<"John Smith", "faster payment", -120000, TRUE>>,
       <<"qzxv", "purchase 99", 50, TRUE>>,
       <<"qzxv", "purchase 99", 50, FALSE>> >>

\* entry e at position i of the list
LedgerTransactionAt(i, e) ==
    LedgerTransaction(i, e[1], IF e[4] THEN getCanonicalName(e[1]) ELSE NULL, e[2], e[3])

\* category, subcategory and confidence the user gives the corrected transaction
LedgerCorrections == { <<"Shopping", "General", 0>>, <<"Housing", "Rent", 100>> }

LedgerInit ==
    /\ \E n \in 1..MaxLedger :
          \E pick \in [1..n -> 1..Len(LedgerEntries)] :
              ledger = [i \in 1..n |-> LedgerTransactionAt(i, LedgerEntries[pick[i]])]
    /\ ledgerCalls = 0

CategorizeTransactions ==
    /\ ledgerCalls < MaxCalls
    /\ ledger' = categorizeTransactions(ledger)
    /\ ledgerCalls' = ledgerCalls + 1
    /\ Frame("ledger")

\* the user corrects transaction i; the correction is propagated to the similar ones
PropagateCorrection ==
    /\ ledgerCalls < MaxCalls
    /\ \E i \in 1..Len(ledger), u \in LedgerCorrections :
          ledger' = applyCorrectionToSimilar(
                        [ledger[i] EXCEPT !.category = u[1], !.subcategory = u[2],
                                          !.confidence = u[3]],
                        ledger)
    /\ ledgerCalls' = ledgerCalls + 1
    /\ Frame("ledger")

\* the user confirms transaction i
BoostConfidenceAfterConfirmation ==
    /\ ledgerCalls < MaxCalls
    /\ \E i \in 1..Len(ledger) :
          ledger' = [ledger EXCEPT
                        ![i] = boostConfidenceAfterConfirmation(ledger[i], DefaultBoost)]
    /\ ledgerCalls' = ledgerCalls + 1
    /\ Frame("ledger")

InitLedger == LedgerInit /\ OthersIdle("ledger")

NextLedger == CategorizeTransactions \/ PropagateCorrection \/ BoostConfidenceAfterConfirmation

SpecLedger == InitLedger /\ [][NextLedger]_vars

\* C13: in every reachable state of the list (as parsed, after categorizeTransactions
\* with its failure branch, after any corrections with a corrected confidence within
\* [0, 1], after any confirmations with the default boost) the confidence of every
\* transaction is within [0, 1]
C13_ConfidenceInRange ==
    \A i \in 1..Len(ledger) : ledger[i].confidence >= 0 /\ ledger[i].confidence <= 100

\* a confirmation of a transaction classified with 0.95 hit the cap of 1 while another
\* transaction carries the confidence 0 of the failure branch
C13_Witness ==
    \E i, j \in 1..Len(ledger) :
        /\ ledger[i].confidence = 100
        /\ ledger[i].notes = "Matched known merchant: Tesco [User confirmed]"
        /\ ledger[j].confidence = 0 /\ ledger[j].notes = "Categorization failed"

(***************************************************************************)
(* cleanMerchantName applied to its own output.                            *)
(***************************************************************************)
\* transaction prefixes in front of the merchant, single and stacked
CleanPrefixes ==
    {"", "Card Payment ", "Payment to ", "Card Payment Payment to ", "POS Contactless ",
     "www."}

CleanNames == {"X", "Acme Shop", "Tesco"}

\* what follows the merchant: branch codes (one and two digit groups), company suffix,
\* location, domain
CleanTails == {"", " 12", " 12 34", " Ltd", " - London", ".com"}

CleanSamples == {p \o n \o t : p \in CleanPrefixes, n \in CleanNames, t \in CleanTails}

CleanInit == kRaw \in CleanSamples /\ kOnce = NULL /\ kTwice = NULL

CleanOnce ==
    /\ kRaw # NULL /\ kOnce = NULL
    /\ kOnce' = cleanMerchantName(kRaw)
    /\ UNCHANGED <<kRaw, kTwice>>
    /\ Frame("clean")

CleanTwice ==
    /\ kOnce # NULL /\ kTwice = NULL
    /\ kTwice' = cleanMerchantName(kOnce)
    /\ UNCHANGED <<kRaw, kOnce>>
    /\ Frame("clean")

InitClean == CleanInit /\ OthersIdle("clean")

NextClean == CleanOnce \/ CleanTwice

SpecClean == InitClean /\ [][NextClean]_vars

\* C14: cleanMerchantName is idempotent: cleaning a cleaned name gives the cleaned name
\* again, for every raw name, those with two stacked prefixes and those that end in two
\* digit groups included
C14_CleanIdempotent == kTwice # NULL => kTwice = kOnce

\* two stacked prefixes: one pass removes only the one that comes later in the list
C14_StackedPrefixes ==
    /\ kRaw = "Card Payment Payment to X"
    /\ kOnce = "payment to x" /\ kTwice = "x"

\* two digit groups: one pass removes only the last one
C14_TwoDigitGroups ==
    /\ kRaw = "X 12 34"
    /\ kOnce = "x 12" /\ kTwice = "x"

\* a name with at most one prefix and one tail is cleaned in one pass
C14_SinglePass ==
    /\ kTwice # NULL
    /\ kRaw \in {p \o n \o t : p \in {"", "Card Payment ", "Payment to ", "www."},
                               n \in CleanNames,
                               t \in {"", " 12", " Ltd", " - London", ".com"}}
    => kTwice = kOnce

(***************************************************************************)
(* The order of the match kinds in getCanonicalName and lookupMerchant.    *)
(***************************************************************************)
\* the first entry, in declaration order, one of whose aliases matches merchantKey by
\* containment; NoMetadata when no entry has such an alias
FirstAliasMatch(merchantKey) ==
    IF \E k \in MerchantIndex : AliasMatches(k, merchantKey)
    THEN KNOWN_MERCHANTS[CHOOSE k \in MerchantIndex :
            /\ AliasMatches(k, merchantKey)
            /\ \A j \in 1..(k - 1) : ~AliasMatches(j, merchantKey)]
    ELSE NoMetadata

\* C15: the lookup tries the three match kinds in order over the whole table: an exact
\* key wins; otherwise, when some entry has an alias that matches by containment, the
\* first such entry in declaration order is returned, even when an earlier entry
\* matches by key containment only ("uber eats london" gives the entry with the alias
\* "uber eats", not the earlier key "uber"); key containment decides only when no alias
\* of any entry matches
C15_AliasBeforeKey ==
    mOnce # NULL =>
        Let(cleanMerchantName(mRaw),
            LAMBDA cleaned :
                Let(TableGet(MerchantKeyOf(cleaned)),
                    LAMBDA direct :
                        Let(FirstAliasMatch(MerchantKeyOf(cleaned)),
                            LAMBDA aliased :
                                IF direct # NoMetadata
                                THEN /\ mOnce = direct.canonical_name
                                     /\ lookupMerchant(mRaw) = direct
                                ELSE aliased # NoMetadata =>
                                        /\ mOnce = aliased.canonical_name
                                        /\ lookupMerchant(mRaw) = aliased)))

\* "uber eats london" is resolved by the key of the entry declared first
C15_UberEatsLondon ==
    /\ mRaw = "uber eats london" /\ mOnce = "Uber"
    /\ lookupMerchant(mRaw).canonical_name = "Uber"
    /\ FirstAliasMatch(MerchantKeyOf(cleanMerchantName(mRaw))).canonical_name = "Uber Eats"

\* what the loop does: the first entry, in declaration order, that matches by an alias
\* or by its key is returned
C15_FirstEntryWins ==
    mOnce # NULL =>
        Let(cleanMerchantName(mRaw),
            LAMBDA cleaned :
                (/\ TableGet(MerchantKeyOf(cleaned)) = NoMetadata
                 /\ \E k \in MerchantIndex : LoopMatches(k, cleaned, MerchantKeyOf(cleaned)))
                => \E k \in MerchantIndex :
                      /\ LoopMatches(k, cleaned, MerchantKeyOf(cleaned))
                      /\ \A j \in 1..(k - 1) : ~LoopMatches(j, cleaned, MerchantKeyOf(cleaned))
                      /\ mOnce = KNOWN_MERCHANTS[k].canonical_name
                      /\ lookupMerchant(mRaw) = KNOWN_MERCHANTS[k])

(***************************************************************************)
(* The keyword stage: which category categorizeWithKeywords returns.       *)
(***************************************************************************)
\* `${merchant} ${description}`, lower-cased
SearchText(transaction) ==
    ToLowerCase(transaction.merchant_canonical) \o " " \o ToLowerCase(transaction.description)

\* the number of keywords of every category found in the search text
MatchCounts(searchText) ==
    [k \in 1..Len(CATEGORY_CONFIG) |-> MatchCount(CATEGORY_CONFIG[k], searchText)]

\* C16: categorizeWithKeywords returns a category whose match count is the maximum over
\* all categories (a category with 3 matching keywords is chosen over a category declared
\* earlier with 2), with the confidence min(0.7, 0.5 + 0.1 x matchCount) times the amount
\* factor and the first configured subcategory of that category
C16_MostMatchesWin ==
    (cResult # NotCalled /\ cResult.method = "fallback") =>
        Let(MatchCounts(SearchText(cTxn)),
            LAMBDA counts :
                (\E k \in DOMAIN counts : counts[k] > 0) =>
                    \E k \in DOMAIN counts :
                        /\ \A j \in DOMAIN counts : counts[j] <= counts[k]
                        /\ cResult.category = CATEGORY_CONFIG[k].category
                        /\ cResult.subcategory = CATEGORY_CONFIG[k].subcategories[1]
                        /\ cResult.confidence =
                              (Min(70, 50 + 10 * counts[k])
                                 * getAmountBasedConfidence(cTxn.amount, cResult.category))
                              \div 100)

\* two Transport keywords (taxi, parking) and three Travel keywords (airport, hotel,
\* booking): Transport, declared first, is returned
C16_TwoBeforeThree ==
    /\ cResult # NotCalled /\ cResult.method = "fallback"
    /\ cTxn.description = "airport taxi parking hotel booking" /\ cTxn.amount = -450
    /\ \E k, j \in 1..Len(CATEGORY_CONFIG) :
          /\ k < j
          /\ CATEGORY_CONFIG[k].category = "Transport"
          /\ MatchCount(CATEGORY_CONFIG[k], SearchText(cTxn)) = 2
          /\ MatchCount(CATEGORY_CONFIG[j], SearchText(cTxn)) = 3
    /\ cResult.category = "Transport" /\ cResult.subcategory = "Fuel"
    /\ cResult.confidence = 70

\* what the loop does: the returned category is the first one, in declaration order,
\* whose capped confidence min(0.7, 0.5 + 0.1 x matchCount) is the largest
C16_FirstLargestCapped ==
    (cResult # NotCalled /\ cResult.method = "fallback") =>
        Let(MatchCounts(SearchText(cTxn)),
            LAMBDA counts :
                (\E k \in DOMAIN counts : counts[k] > 0) =>
                    \E k \in DOMAIN counts :
                        /\ counts[k] > 0
                        /\ \A j \in DOMAIN counts : Min(2, counts[j]) <= Min(2, counts[k])
                        /\ \A j \in 1..(k - 1) : Min(2, counts[j]) < Min(2, counts[k])
                        /\ cResult.category = CATEGORY_CONFIG[k].category
                        /\ cResult.subcategory = CATEGORY_CONFIG[k].subcategories[1]
                        /\ cResult.confidence =
                              (Min(70, 50 + 10 * counts[k])
                                 * getAmountBasedConfidence(cTxn.amount, cResult.category))
                              \div 100)

(***************************************************************************)
(* Column detection on the header row of a delimited file.                 *)
(***************************************************************************)
DateHeaders == {"Date", "Transaction Date", "Posted Date ", "Booked"}

DescriptionHeaders == {"Description", "Merchant Name", "Details", "Payee", "Narrative"}

\* headers of a single amount column, and of a debit column
AmountHeaders ==
    {"Amount", "amount ", "Amount (GBP)", "Net Amount", "Value", "Transaction Amount",
     "Value (GBP)", "Paid out", "Sum"}

\* the header row of a file: date, description, amount, and sometimes a balance
HeaderRows ==
    { <<d, t, a>> : d \in DateHeaders, t \in DescriptionHeaders, a \in AmountHeaders }
        \cup { <<d, "Description", a, "Balance">> : d \in DateHeaders, a \in AmountHeaders }

MappingInit == hHeaders \in HeaderRows /\ hMapping = NotCalled

DetectColumnMapping ==
    /\ hHeaders # <<>> /\ hMapping = NotCalled
    /\ hMapping' = Returned(detectColumnMapping(hHeaders))
    /\ UNCHANGED hHeaders
    /\ Frame("mapping")

InitMapping == MappingInit /\ OthersIdle("mapping")

NextMapping == DetectColumnMapping

SpecMapping == InitMapping /\ [][NextMapping]_vars

amountPatterns == <<"amount", "value", "transaction amount">>

\* C17: every role is mapped by case-insensitive substring: in particular a header that
\* contains an amount pattern as a substring ("Amount (GBP)", "Net Amount") is mapped as
\* the amount column
C17_AmountBySubstring ==
    hMapping # NotCalled =>
        hMapping.value.amount = MappedHeader(hHeaders, amountPatterns, FALSE)

\* "Amount (GBP)" is left unmapped while the other roles of the same row are mapped by
\* substring
C17_AmountGbpUnmapped ==
    /\ hMapping # NotCalled
    /\ hHeaders = <<"Transaction Date", "Merchant Name", "Amount (GBP)">>
    /\ hMapping.value.date = "Transaction Date"
    /\ hMapping.value.description = "Merchant Name"
    /\ hMapping.value.amount = NULL

\* "Net Amount" is left unmapped
C17_NetAmountUnmapped ==
    /\ hMapping # NotCalled
    /\ hHeaders[3] = "Net Amount"
    /\ hMapping.value.amount = NULL

\* what the code does for the amount role: the lower-cased, trimmed header has to equal a
\* pattern; the other roles are mapped by substring
C17_AmountByEquality ==
    hMapping # NotCalled =>
        /\ hMapping.value.amount # NULL
              <=> \E i \in 1..Len(hHeaders), k \in 1..Len(amountPatterns) :
                     Trim(ToLowerCase(hHeaders[i])) = amountPatterns[k]
        /\ hMapping.value.date = MappedHeader(hHeaders, <<"date">>, FALSE)
        /\ hMapping.value.balance = MappedHeader(hHeaders, <<"balance">>, FALSE)

(***************************************************************************)
(* findTransactionTableBoundaries.  A page is the sequence of its lines;   *)
(* line i of the source (counted from 0) is lines[i + 1].                  *)
(***************************************************************************)
RECURSIVE InOrder(_, _, _)
\* /w1.*w2.*w3/ tested on s: the words occur in this order, one after the other
InOrder(s, words, k) ==
    IF k > Len(words) THEN TRUE
    ELSE Let(IndexOf(s, words[k]),
             LAMBDA p : p # 0 /\ InOrder(Substring(s, p + Len(words[k]) - 1), words, k + 1))

headerPatterns ==
    << <<"date", "description", "amount">>, <<"date", "details", "debit", "credit">>,
       <<"transaction date", "merchant", "value">>,
       <<"posting date", "description", "amount">> >>

\* headerPatterns.some(pattern => pattern.test(line))
IsHeaderLine(l) ==
    Let(ToLowerCase(l),
        LAMBDA lower : \E k \in 1..Len(headerPatterns) : InOrder(lower, headerPatterns[k], 1))

\* /^total/i, /^balance/i, /^subtotal/i, /^page \d+/i, /^statement period/i on the
\* trimmed line
IsEndLine(trimmed) ==
    Let(ToLowerCase(trimmed),
        LAMBDA lower :
            \/ StartsWith(lower, "total") \/ StartsWith(lower, "balance")
            \/ StartsWith(lower, "subtotal") \/ StartsWith(lower, "statement period")
            \/ (StartsWith(lower, "page ") /\ IsDigit(Char(lower, 6))))

\* lines[j].trim().length < 5, j counted from 0
IsShortLine(pageLines, j) == Len(Trim(pageLines[j + 1])) < 5

\* blankCount for the short line i: the line itself and the short lines among the
\* lines i+1 .. min(i+5, lines.length) - 1
BlankCount(pageLines, i) ==
    1 + Cardinality({j \in (i + 1)..(Min(i + 5, Len(pageLines)) - 1) : IsShortLine(pageLines, j)})

\* the line at which the loop from start breaks
EndsTable(pageLines, i) ==
    \/ IsEndLine(Trim(pageLines[i + 1]))
    \/ (IsShortLine(pageLines, i) /\ BlankCount(pageLines, i) >= 3)

\* the value of a boundaries result that is null
NoBoundaries == [found |-> FALSE]

Boundaries(start, end) == [found |-> TRUE, start |-> start, end |-> end]

\* the first of the line numbers at which the loop can break, lines.length when none
FirstEnd(breaks, pageLines) ==
    IF breaks = {} THEN Len(pageLines)
    ELSE CHOOSE i \in breaks : \A j \in breaks : i <= j

findTransactionTableBoundaries(pageLines) ==
    IF \E i \in 0..(Len(pageLines) - 1) : IsHeaderLine(pageLines[i + 1])
    THEN Let(1 + CHOOSE i \in 0..(Len(pageLines) - 1) :
                    /\ IsHeaderLine(pageLines[i + 1])
                    /\ \A j \in 0..(i - 1) : ~IsHeaderLine(pageLines[j + 1]),
             LAMBDA start :
                Boundaries(start,
                           FirstEnd({i \in start..(Len(pageLines) - 1) : EndsTable(pageLines, i)},
                                    pageLines)))
    ELSE NoBoundaries

MaxBody == 5

\* the lines below the header: transactions, empty and near-empty lines, a total
BodyLines == {"15/09/2024 NETFLIX 29.99", "", " -- ", "Total 99.00"}

\* the line where a header is expected; the last one is no header
HeaderLines ==
    {"Date Description Amount", "Posting Date  Details  Debit  Credit", "Recent activity"}

TablePages ==
    { <<"Statement 09/2024", h>> \o body :
        h \in HeaderLines, body \in UNION {[1..n -> BodyLines] : n \in 0..MaxBody} }

TableInit == tLines \in TablePages /\ tBoundaries = NotCalled

FindTransactionTableBoundaries ==
    /\ tLines # <<>> /\ tBoundaries = NotCalled
    /\ tBoundaries' = Returned(findTransactionTableBoundaries(tLines))
    /\ UNCHANGED tLines
    /\ Frame("table")

InitTable == TableInit /\ OthersIdle("table")

NextTable == FindTransactionTableBoundaries

SpecTable == InitTable /\ [][NextTable]_vars

\* three consecutive near-empty lines (fewer than 5 characters) from line i on
ThreeConsecutiveShort(pageLines, i) ==
    /\ i + 2 <= Len(pageLines) - 1
    /\ \A j \in i..(i + 2) : IsShortLine(pageLines, j)

\* the end of the region as stated: the first line from start on that is a terminator
\* or the first of three consecutive near-empty lines
EndAsStated(pageLines, start) ==
    FirstEnd({i \in start..(Len(pageLines) - 1) :
                 IsEndLine(Trim(pageLines[i + 1])) \/ ThreeConsecutiveShort(pageLines, i)},
             pageLines)

\* C18: findTransactionTableBoundaries returns null when no header pattern matches;
\* otherwise start is the index of the first header line plus 1 and end is the smallest
\* i >= start such that line i is a terminator or lines i, i+1, i+2 are three consecutive
\* near-empty lines, or the number of lines when there is no such i; a near-empty line
\* that is not followed by two further consecutive near-empty lines does not end the
\* region
C18_EndAtThreeConsecutive ==
    tBoundaries # NotCalled =>
        IF \A i \in 1..Len(tLines) : ~IsHeaderLine(tLines[i])
        THEN tBoundaries.value = NoBoundaries
        ELSE /\ tBoundaries.value.found
             /\ IsHeaderLine(tLines[tBoundaries.value.start])
             /\ \A i \in 1..(tBoundaries.value.start - 1) : ~IsHeaderLine(tLines[i])
             /\ tBoundaries.value.end = EndAsStated(tLines, tBoundaries.value.start)

\* the region ends at a near-empty line that is followed by a transaction: the two other
\* near-empty lines are further down, among the next four
C18_EndsAtLoneShortLine ==
    /\ tBoundaries # NotCalled
    /\ tLines = <<"Statement 09/2024", "Date Description Amount", "15/09/2024 NETFLIX 29.99",
                  "", "15/09/2024 NETFLIX 29.99", "", " -- ">>
    /\ tBoundaries.value = Boundaries(2, 3)

\* the null result, the start and the terminator part of the statement hold; the end is
\* never later than stated
C18_StartAndTerminators ==
    tBoundaries # NotCalled =>
        IF \A i \in 1..Len(tLines) : ~IsHeaderLine(tLines[i])
        THEN tBoundaries.value = NoBoundaries
        ELSE /\ tBoundaries.value.found
             /\ IsHeaderLine(tLines[tBoundaries.value.start])
             /\ \A i \in 1..(tBoundaries.value.start - 1) : ~IsHeaderLine(tLines[i])
             /\ tBoundaries.value.end <= EndAsStated(tLines, tBoundaries.value.start)
             /\ \A i \in tBoundaries.value.start..(tBoundaries.value.end - 1) :
                   ~IsEndLine(Trim(tLines[i + 1]))

(***************************************************************************)
(* Rendered documents.  A PDFDocument is the sequence of its pages, a page *)
(* the sequence of its lines; line i of the source (counted from 0) is     *)
(* lines[i + 1].  fullText is the text of the pages, joined.               *)
(***************************************************************************)
\* str.replace(t, ''): the first occurrence of t removed
RemoveFirst(s, t) ==
    Let(IndexOf(s, t),
        LAMBDA p : IF p = 0 \/ t = "" THEN s
                   ELSE SubSeq(s, 1, p - 1) \o Substring(s, p + Len(t) - 1))

\* s.lastIndexOf(t), counted from 0; -1 when t does not occur
LastIndexOf(s, t) ==
    IF Includes(s, t)
    THEN (CHOOSE i \in 1..(Len(s) - Len(t) + 1) :
             /\ SubSeq(s, i, i + Len(t) - 1) = t
             /\ \A j \in (i + 1)..(Len(s) - Len(t) + 1) : SubSeq(s, j, j + Len(t) - 1) # t) - 1
    ELSE -1

RECURSIVE Join(_, _)
\* parts.join(sep)
Join(parts, sep) ==
    IF Len(parts) = 0 THEN ""
    ELSE IF Len(parts) = 1 THEN parts[1]
    ELSE parts[1] \o sep \o Join(Tail(parts), sep)

RECURSIVE MergeSingles(_, _, _)
\* the loop of normalizeHsbcLine over the tokens from k on, with the characters buffered
\* so far: runs of single letters and digits are joined into one token
MergeSingles(tokens, k, buffer) ==
    IF k > Len(tokens) THEN (IF buffer = "" THEN <<>> ELSE <<buffer>>)
    ELSE IF Len(tokens[k]) = 1 /\ (IsLetter(tokens[k]) \/ IsDigit(tokens[k]))
         THEN MergeSingles(tokens, k + 1, buffer \o tokens[k])
         ELSE (IF buffer = "" THEN <<>> ELSE <<buffer>>)
                  \o <<tokens[k]>> \o MergeSingles(tokens, k + 1, "")

normalizeHsbcLine(line) ==
    Let(Trim(CollapseSpaces(line, 1)),
        LAMBDA normalized :
            IF normalized = "" THEN normalized
            ELSE Let(Split(normalized, " "),
                     LAMBDA tokens :
                        IF 10 * Cardinality({k \in 1..Len(tokens) : Len(tokens[k]) = 1})
                              < 4 * Len(tokens)
                        THEN normalized
                        ELSE Join(MergeSingles(tokens, 1, ""), " ")))

\* normalized.match(HSBC_DATE_REGEX): the length of dateMatch[0], 0 when there is no match
HsbcDateMatch(normalized) ==
    Let(NamedDate(normalized),
        LAMBDA n : IF n.head /\ n.s2 >= 1 /\ n.c >= 2
                   THEN n.a + n.s1 + n.l + n.s2 + Min(4, n.c)
                   ELSE 0)

hsbcLineStartsWithDate(rawLine) == HsbcDateMatch(normalizeHsbcLine(rawLine)) > 0

\* /([\d,]+\.\d{2})\s*$/ on a trimmed line: the length of the match, 0 when none
LastAmount(s) ==
    IF /\ Len(s) >= 4
       /\ IsDigit(Char(s, Len(s))) /\ IsDigit(Char(s, Len(s) - 1)) /\ Char(s, Len(s) - 2) = "."
       /\ TrailingRun(DropEnd(s, 3), "amountChar") >= 1
    THEN TrailingRun(DropEnd(s, 3), "amountChar") + 3
    ELSE 0

NoAmountMatch == [matched |-> FALSE]

\* /([\d,]+\.\d{2})(?:\s+[\d,]+\.\d{2})?\s*$/ on a trimmed line: with two numbers at the
\* end the match starts at the first one, which is group 1
AmountThenBalance(s) ==
    Let(LastAmount(s),
        LAMBDA last :
            IF last = 0 THEN NoAmountMatch
            ELSE Let(DropEnd(s, last),
                     LAMBDA head :
                        Let(TrailingRun(head, "space"),
                            LAMBDA w :
                                Let(IF w >= 1 THEN LastAmount(DropEnd(head, w)) ELSE 0,
                                    LAMBDA first :
                                        IF first > 0
                                        THEN [matched |-> TRUE, two |-> TRUE,
                                              whole |-> Slice(s, Len(s) - last - w - first + 1, Len(s)),
                                              amountStr |-> Slice(head, Len(head) - w - first + 1,
                                                                  Len(head) - w)]
                                        ELSE [matched |-> TRUE, two |-> FALSE,
                                              whole |-> Slice(s, Len(s) - last + 1, Len(s)),
                                              amountStr |-> Slice(s, Len(s) - last + 1, Len(s))]))))

\* /^[\)\(]{2,}\s*/ removed
StripBrackets(s) ==
    Let(LeadingRun(s, 1, "bracket"),
        LAMBDA b : IF b >= 2 THEN Substring(s, b + LeadingRun(s, b + 1, "space")) ELSE s)

\* /^(\)\)\)|VIS\s|CR\s|DD\s|SO\s|TFR\s|ATM\s|CHQ\s)/i
isMerchantLine(normalizedLine) ==
    Let(ToLowerCase(normalizedLine),
        LAMBDA lower :
            \/ StartsWith(lower, ")))")
            \/ \E k \in 1..7 :
                  StartsWith(lower, <<"vis", "cr", "dd", "so", "tfr", "atm", "chq">>[k] \o " "))

\* /\.(com|co\.uk)\/bil/i
isBillingLine(normalizedLine) ==
    Let(ToLowerCase(normalizedLine),
        LAMBDA lower : Includes(lower, ".com/bil") \/ Includes(lower, ".co.uk/bil"))

\* the summary lines at which the backward search stops
isSummaryLine(prevLine) ==
    Let(ToLowerCase(prevLine),
        LAMBDA prevLower :
            \/ Includes(prevLower, "balance brought forward")
            \/ Includes(prevLower, "balance carried forward")
            \/ Includes(prevLower, "total"))

\* a line that holds a date range ("24 July to 23 August")
isDateRange(normalizedLine) == Includes(ToLowerCase(normalizedLine), " to ")

\* the column header of the HSBC transaction table
isHsbcHeader(normalizedLine) ==
    Let(ToLowerCase(normalizedLine),
        LAMBDA lineLower :
            Includes(lineLower, "date")
                /\ (Includes(lineLower, "paid out") \/ Includes(lineLower, "paidout")))

isAccountTitle(normalizedLine) ==
    Let(ToLowerCase(normalizedLine),
        LAMBDA lineLower :
            Includes(lineLower, "your bank account")
                \/ Includes(lineLower, "your business banking account"))

\* the transaction object the document parsers push
PdfTransaction(id, date, amount, merchant_raw, description) ==
    [id |-> id, date |-> date, amount |-> amount, currency |-> "GBP",
     merchant_raw |-> merchant_raw, merchant_canonical |-> getCanonicalName(merchant_raw),
     description |-> description, category |-> "Unknown", confidence |-> 0]

RECURSIVE HsbcStartFrom(_, _)
\* the search for the column header from line i on: startIndex, -1 when there is none
HsbcStartFrom(norm, i) ==
    IF i > Len(norm) - 1 THEN -1
    ELSE IF /\ isAccountTitle(norm[i + 1])
            /\ \E j \in Max(0, i - 10)..(i - 1) : isHsbcHeader(norm[j + 1])
    THEN 1 + CHOOSE j \in Max(0, i - 10)..(i - 1) :
                /\ isHsbcHeader(norm[j + 1])
                /\ \A h \in Max(0, i - 10)..(j - 1) : ~isHsbcHeader(norm[h + 1])
    ELSE IF isHsbcHeader(norm[i + 1]) THEN i + 1
    ELSE HsbcStartFrom(norm, i + 1)

\* searchEndIndex: the transactions are the lines before the header
HsbcSearchEnd(norm) ==
    Let(HsbcStartFrom(norm, 0),
        LAMBDA startIndex : IF startIndex # -1 THEN startIndex ELSE Len(norm))

\* the index of every line that starts with a date and holds no date range
datePositions(norm, searchEndIndex) ==
    {d \in 0..(searchEndIndex - 1) : HsbcDateMatch(norm[d + 1]) > 0 /\ ~isDateRange(norm[d + 1])}

\* dateMatch[0] of line d
DateOfLine(norm, d) == Slice(norm[d + 1], 1, HsbcDateMatch(norm[d + 1]))

\* the nearest date at or after idx, the last known date when there is none, else NULL
getDateForIndex(norm, searchEndIndex, idx) ==
    Let(datePositions(norm, searchEndIndex),
        LAMBDA dps :
            IF \E d \in dps : d >= idx
            THEN DateOfLine(norm, CHOOSE d \in dps : d >= idx /\ \A e \in dps : e >= idx => d <= e)
            ELSE IF dps # {}
            THEN DateOfLine(norm, CHOOSE d \in dps : \A e \in dps : e <= d)
            ELSE NULL)

RECURSIVE SpaceRuns(_, _)
\* the number of runs of two or more blanks in s from position i on
SpaceRuns(s, i) ==
    IF i > Len(s) THEN 0
    ELSE Let(LeadingRun(s, i, "space"),
             LAMBDA w : IF w >= 2 THEN 1 + SpaceRuns(s, i + w)
                        ELSE SpaceRuns(s, i + Max(1, w)))

\* isCredit of a dated line whose amount is amountStr
IsCreditLine(rawLine, normalizedLine, amountStr) ==
    Let(ToLowerCase(Slice(normalizedLine, 1, LastIndexOf(normalizedLine, amountStr))),
        LAMBDA lower :
            IF Includes(lower, "paid in") \/ Includes(lower, "credit") THEN TRUE
            ELSE IF Includes(lower, "paid out") \/ Includes(lower, "debit") THEN FALSE
            ELSE Let(Slice(rawLine, 1, LastIndexOf(rawLine, amountStr)),
                     LAMBDA rawBeforeAmount : 1 + SpaceRuns(rawBeforeAmount, 1) >= 3))

NoAmount == [foundAmount |-> FALSE]

RECURSIVE BackwardSearch(_, _, _)
\* the backward search of a dated line i from line j down: the amount of the nearest line
\* that ends with one, unless a dated line or a summary line comes first
BackwardSearch(norm, i, j) ==
    IF ~(j >= 0 /\ j > i - 5) THEN NoAmount
    ELSE IF HsbcDateMatch(norm[j + 1]) > 0 THEN NoAmount
    ELSE IF isSummaryLine(norm[j + 1]) THEN NoAmount
    ELSE Let(AmountThenBalance(norm[j + 1]),
             LAMBDA prevAmountMatch :
                IF prevAmountMatch.matched
                THEN [foundAmount |-> TRUE, line |-> j,
                      amountStr |-> prevAmountMatch.amountStr,
                      locationText |-> Trim(RemoveFirst(norm[j + 1], prevAmountMatch.whole))]
                ELSE BackwardSearch(norm, i, j - 1))

\* the transaction pushed with the given date string and amount string, NoTransaction
\* when parseFlexibleDate or parseAmount throws (the catch logs a warning)
PushedTransaction(id, dateStr, amountStr, negate, nonZero, merchant_raw, description, tz, now) ==
    Let(parseFlexibleDate(dateStr, tz, now),
        LAMBDA date :
            Let(pdfParseAmount(amountStr),
                LAMBDA parsed :
                    IF ~date.ok \/ ~parsed.ok THEN NoTransaction
                    ELSE IF nonZero /\ parsed.value = 0 THEN NoTransaction
                    ELSE PdfTransaction(id, date.value,
                                        IF negate THEN -parsed.value ELSE parsed.value,
                                        merchant_raw, description)))

\* a line that starts with a date: its own amount, else the amount found backwards
HsbcDatedLine(pageLines, norm, i, tz, now) ==
    Let(norm[i + 1],
        LAMBDA normalizedLine :
            Let(HsbcDateMatch(normalizedLine),
                LAMBDA dateLen :
                    Let(StripBrackets(Trim(Substring(normalizedLine, dateLen))),
                        LAMBDA merchantLine :
                            Let(LastAmount(normalizedLine),
                                LAMBDA own :
                                    IF own > 0
                                    THEN Let(Slice(normalizedLine, Len(normalizedLine) - own + 1,
                                                   Len(normalizedLine)),
                                             LAMBDA amountStr :
                                                Let(Trim(RemoveFirst(merchantLine, amountStr)),
                                                    LAMBDA description :
                                                        PushedTransaction(
                                                            generateId(i + 1),
                                                            Slice(normalizedLine, 1, dateLen),
                                                            amountStr,
                                                            ~IsCreditLine(pageLines[i + 1],
                                                                          normalizedLine, amountStr),
                                                            TRUE, description, description,
                                                            tz, now)))
                                    ELSE Let(BackwardSearch(norm, i, i - 1),
                                             LAMBDA back :
                                                IF ~back.foundAmount THEN NoTransaction
                                                ELSE Let(Trim(IF Len(back.locationText) > 1
                                                              THEN merchantLine \o " ("
                                                                       \o back.locationText \o ")"
                                                              ELSE merchantLine),
                                                         LAMBDA description :
                                                            PushedTransaction(
                                                                generateId(i + 1),
                                                                Slice(normalizedLine, 1, dateLen),
                                                                back.amountStr, TRUE, TRUE,
                                                                description, description,
                                                                tz, now)))))))

\* a billing line: the amount is the first of the two numbers at its end
HsbcBillingLine(norm, searchEndIndex, i, tz, now) ==
    Let(getDateForIndex(norm, searchEndIndex, i),
        LAMBDA applicableDate :
            IF applicableDate = NULL THEN NoTransaction
            ELSE Let(AmountThenBalance(norm[i + 1]),
                     LAMBDA amountMatch :
                        Let(Trim(RemoveFirst(norm[i + 1], amountMatch.whole)),
                            LAMBDA merchant_raw :
                                PushedTransaction(generateId(i + 1), applicableDate,
                                                  amountMatch.amountStr, TRUE, FALSE,
                                                  merchant_raw, merchant_raw, tz, now))))

\* a merchant-only line: the amount is looked for on the previous line
HsbcMerchantLine(norm, searchEndIndex, i, tz, now) ==
    IF i - 1 < 0 THEN NoTransaction
    ELSE Let(AmountThenBalance(norm[i]),
             LAMBDA prevAmountMatch :
                IF ~prevAmountMatch.matched THEN NoTransaction
                ELSE Let(getDateForIndex(norm, searchEndIndex, i),
                         LAMBDA applicableDate :
                            IF applicableDate = NULL THEN NoTransaction
                            ELSE Let(Trim(StripBrackets(norm[i + 1])),
                                     LAMBDA merchantLine :
                                        Let(Trim(RemoveFirst(norm[i], prevAmountMatch.whole)),
                                            LAMBDA locationText :
                                                PushedTransaction(
                                                    generateId(i + 1), applicableDate,
                                                    prevAmountMatch.amountStr, TRUE, FALSE,
                                                    merchantLine,
                                                    IF locationText # ""
                                                    THEN merchantLine \o " (" \o locationText \o ")"
                                                    ELSE merchantLine,
                                                    tz, now)))))

\* one round of the main loop: what line i pushes, NoTransaction when it pushes nothing
HsbcLine(pageLines, norm, searchEndIndex, i, tz, now) ==
    IF HsbcDateMatch(norm[i + 1]) > 0 /\ ~isDateRange(norm[i + 1])
    THEN HsbcDatedLine(pageLines, norm, i, tz, now)
    ELSE IF isBillingLine(norm[i + 1]) /\ AmountThenBalance(norm[i + 1]).matched
               /\ AmountThenBalance(norm[i + 1]).two
    THEN HsbcBillingLine(norm, searchEndIndex, i, tz, now)
    ELSE IF isMerchantLine(norm[i + 1])
    THEN HsbcMerchantLine(norm, searchEndIndex, i, tz, now)
    ELSE NoTransaction

RECURSIVE Pushed(_, _)
\* the transactions of a sequence of loop rounds, in order
Pushed(rounds, k) ==
    IF k > Len(rounds) THEN <<>>
    ELSE (IF rounds[k] = NoTransaction THEN <<>> ELSE <<rounds[k]>>) \o Pushed(rounds, k + 1)

\* the transactions of one page
HsbcPage(pageLines, tz, now) ==
    Let([k \in 1..Len(pageLines) |-> normalizeHsbcLine(pageLines[k])],
        LAMBDA norm :
            Let(HsbcSearchEnd(norm),
                LAMBDA searchEndIndex :
                    Pushed([k \in 1..searchEndIndex |->
                               HsbcLine(pageLines, norm, searchEndIndex, k - 1, tz, now)], 1)))

\* /\d{1,2}[\/\-\s](jan|...|dec|\d{1,2})/i tested at position p of the line
DateLikeAt(line, p) ==
    /\ IsDigit(Char(line, p))
    /\ Slice(line, p + 1, p + 1) \in {"/", "-", " "}
    /\ \/ HasDigit(Slice(line, p + 2, p + 2))
       \/ MonthIndex(ToLowerCase(Slice(line, p + 2, p + 4))) >= 0

\* hasDate && hasAmount: hasAmount asks for one digit anywhere in the line
looksLikeTransaction(line) ==
    (\E p \in 1..Len(line) : DateLikeAt(line, p)) /\ HasDigit(line)

\* the transactions of one page: the lines between the table boundaries that look like
\* transactions and that parseGenericTransactionLine can parse
GenericPage(pageLines, tz, now) ==
    Let(findTransactionTableBoundaries(pageLines),
        LAMBDA boundaries :
            IF boundaries = NoBoundaries THEN <<>>
            ELSE Pushed([k \in 1..(boundaries.end - boundaries.start) |->
                            IF looksLikeTransaction(pageLines[boundaries.start + k])
                            THEN parseGenericTransactionLine(pageLines[boundaries.start + k],
                                                             tz, now).transaction
                            ELSE NoTransaction], 1))

RECURSIVE PagesFrom(_, _, _, _, _)
\* the loop over pdfDoc.pages from page p on; hsbc selects the parser of a page
PagesFrom(pdfDoc, p, hsbc, tz, now) ==
    IF p > Len(pdfDoc) THEN <<>>
    ELSE (IF hsbc THEN HsbcPage(pdfDoc[p], tz, now) ELSE GenericPage(pdfDoc[p], tz, now))
             \o PagesFrom(pdfDoc, p + 1, hsbc, tz, now)

parseHSBCFormat(pdfDoc, tz, now) == PagesFrom(pdfDoc, 1, TRUE, tz, now)

parseGenericFormat(pdfDoc, tz, now) == PagesFrom(pdfDoc, 1, FALSE, tz, now)

\* fullText: the text items of every page joined by a blank and followed by two line
\* feeds; every line of a page is one text item
FullText(pdfDoc) ==
    Join([p \in 1..Len(pdfDoc) |-> Join(pdfDoc[p], " ") \o "\n\n"], "")

detectBankFormat(text) ==
    Let(ToLowerCase(text),
        LAMBDA lower :
            IF Includes(lower, "barclays") THEN "barclays"
            ELSE IF Includes(lower, "hsbc") THEN "hsbc"
            ELSE IF Includes(lower, "lloyds") THEN "lloyds"
            ELSE IF Includes(lower, "natwest") \/ Includes(lower, "royal bank") THEN "natwest"
            ELSE IF Includes(lower, "santander") THEN "santander"
            ELSE IF Includes(lower, "monzo") THEN "monzo"
            ELSE IF Includes(lower, "revolut") THEN "revolut"
            ELSE IF Includes(lower, "amex") \/ Includes(lower, "american express") THEN "amex"
            ELSE "generic")

\* the switch on bankFormat: only hsbc has a parser of its own, every other case ends
\* in parseGenericFormat
extractTransactionsFromPDF(pdfDoc, bankFormat, tz, now) ==
    IF bankFormat = "hsbc" THEN parseHSBCFormat(pdfDoc, tz, now)
    ELSE parseGenericFormat(pdfDoc, tz, now)

NoTransactionsFound ==
    "Failed to parse PDF: No transactions found in PDF. Please ensure it's a valid bank statement."

parsePDF(file, filename, tz, now) ==
    IF ~file.readable
    THEN Threw("Failed to parse PDF: Failed to extract text from PDF: Unknown error")
    ELSE Let(extractTransactionsFromPDF(file.pages, detectBankFormat(FullText(file.pages)),
                                        tz, now),
             LAMBDA transactions :
                IF Len(transactions) = 0 THEN Threw(NoTransactionsFound)
                ELSE Returned([filename |-> filename, transactions |-> transactions,
                               metadata |-> [currency |-> "GBP"]]))

(***************************************************************************)
(* Rendered documents: the parsers on one file.                            *)
(***************************************************************************)
MaxBefore == 4

\* lines that come before a transaction line of an HSBC page: a location with the
\* amount and the running balance, a line without an amount, a summary line
HsbcBefore == {"LONDON GB 12.34 567.89", "CARD 1234", "BALANCE BROUGHT FORWARD 600.00"}

\* the transaction line: a merchant-only line, a dated line without an amount, a dated
\* line with amount and balance, a billing line
HsbcTargets ==
    {"VIS TESCO STORES", "23 Jul 24 ))) COSTA COFFEE", "24 Jul 24 DD NETFLIX 9.99 557.90",
     "APPLE.COM/BIL 2.99 926.78"}

\* an HSBC page: the column header comes after the transactions
HsbcPages ==
    { <<"HSBC UK Bank plc">> \o before
          \o <<target, "25 Jul 24 ATM CASH 50.00",
               "Date Payment type and details Paid out Paid in Balance">> :
        before \in UNION {[1..n -> HsbcBefore] : n \in 0..MaxBefore}, target \in HsbcTargets }

\* documents of other layouts, with and without a table the generic parser reads
OtherDocuments ==
    { << <<"HSBC UK Bank plc", "Date Description Amount", "15/09/2024 NETFLIX 29.99",
           "Total 29.99">> >>,
      << <<"HSBC UK Bank plc", "Your statement 24 July to 23 August 2024">> >>,
      << <<"HSBC UK Bank plc", "2 5 J u l 2 4 A T M C A S H 50.00">>,
         <<"page 2", "26 Jul 24 CR  ACME LTD   SALARY   1,500.00">> >>,
      << <<"Statement 09/2024", "Date Description Amount", "15/09/2024 NETFLIX 29.99">> >>,
      << <<"Barclays Bank UK", "Date Description Amount", "01 Sep TESCO 12.95",
           "Total 12.95", "02 Sep TESCO 1.00">> >>,
      << <<"Lloyds Bank", "Date Details Debit Credit", "no entries">> >>,
      << <<"NatWest", "Posting Date Description Amount", "2024-09-01 SHELL 45.20">> >>,
      << <<"Santander">>, <<"Date Description Amount", "01 Sep 2024 TESCO 12.95">> >>,
      << <<"Monzo", "15/09/2024 NETFLIX 29.99">> >>,
      << <<"Revolut", "Transaction Date Merchant Value", "15/09/2024 NETFLIX 29.99">> >>,
      << <<"American Express", "Date Description Amount", "", "", "",
           "15/09/2024 NETFLIX 29.99">> >>,
      << >> }

PdfInit ==
    /\ pdfFile \in {[readable |-> TRUE, pages |-> <<page>>] : page \in HsbcPages}
                      \cup {[readable |-> TRUE, pages |-> pdfDoc] : pdfDoc \in OtherDocuments}
                      \cup {[readable |-> FALSE]}
    /\ pdfTz = 0
    /\ pdfNow = UTCDate(2024, 9, 15) + 600
    /\ pdfStatement = NotCalled /\ pdfHsbc = NotCalled /\ pdfGeneric = NotCalled

PdfNotCalled == pdfStatement = NotCalled /\ pdfHsbc = NotCalled /\ pdfGeneric = NotCalled

ParsePDF ==
    /\ PdfNotCalled
    /\ pdfStatement' = parsePDF(pdfFile, "statement.pdf", pdfTz, pdfNow)
    /\ UNCHANGED <<pdfFile, pdfTz, pdfNow, pdfHsbc, pdfGeneric>>
    /\ Frame("pdf")

ParseHSBCFormat ==
    /\ PdfNotCalled /\ pdfFile.readable
    /\ pdfHsbc' = Returned(parseHSBCFormat(pdfFile.pages, pdfTz, pdfNow))
    /\ UNCHANGED <<pdfFile, pdfTz, pdfNow, pdfStatement, pdfGeneric>>
    /\ Frame("pdf")

ParseGenericFormat ==
    /\ PdfNotCalled /\ pdfFile.readable
    /\ pdfGeneric' = Returned(parseGenericFormat(pdfFile.pages, pdfTz, pdfNow))
    /\ UNCHANGED <<pdfFile, pdfTz, pdfNow, pdfStatement, pdfHsbc>>
    /\ Frame("pdf")

InitPdf == PdfInit /\ OthersIdle("pdf")

NextPdf == ParsePDF \/ ParseHSBCFormat \/ ParseGenericFormat

SpecPdf == InitPdf /\ [][NextPdf]_vars


\* the lines of page p after normalizeHsbcLine
NormalizedPage(p) == [k \in 1..Len(pdfFile.pages[p]) |-> normalizeHsbcLine(pdfFile.pages[p][k])]

\* line i of the normalized page is a merchant-only continuation line: it matches the
\* prefix allowlist, starts with no date and is no billing line with two numbers
MerchantOnlyLine(norm, i) ==
    /\ HsbcDateMatch(norm[i + 1]) = 0
    /\ isMerchantLine(norm[i + 1])
    /\ ~(isBillingLine(norm[i + 1]) /\ AmountThenBalance(norm[i + 1]).two)

\* the lines among i-1 down to i-4 that end with an amount and are no summary lines
AmountLinesBefore(norm, i) ==
    {j \in Max(0, i - 4)..(i - 1) :
        ~isSummaryLine(norm[j + 1]) /\ AmountThenBalance(norm[j + 1]).matched}

NearestAmountLine(norm, i) ==
    CHOOSE j \in AmountLinesBefore(norm, i) : \A h \in AmountLinesBefore(norm, i) : h <= j

\* some transaction of the result has this merchant_raw and this amount
Emitted(result, merchant_raw, amount) ==
    \E k \in 1..Len(result) :
        result[k].merchant_raw = merchant_raw /\ result[k].amount = amount

\* C19: in the HSBC strategy a merchant-only continuation line at index i is paired with
\* the nearest amount-bearing line among i-1 down to i-4, summary lines being skipped,
\* and a transaction is emitted whenever such an amount line exists.
C19_NearestOfFourBefore ==
    pdfHsbc.called =>
        \A p \in 1..Len(pdfFile.pages) :
            \A i \in 0..(HsbcSearchEnd(NormalizedPage(p)) - 1) :
                (/\ MerchantOnlyLine(NormalizedPage(p), i)
                 /\ AmountLinesBefore(NormalizedPage(p), i) # {}
                 /\ getDateForIndex(NormalizedPage(p), HsbcSearchEnd(NormalizedPage(p)), i) # NULL)
                => Emitted(pdfHsbc.value, Trim(StripBrackets(NormalizedPage(p)[i + 1])),
                           -pdfParseAmount(AmountThenBalance(
                               NormalizedPage(p)[NearestAmountLine(NormalizedPage(p), i) + 1]
                               ).amountStr).value)

\* C19: the page on which a line without an amount stands between the amount line and
\* the merchant-only line has been parsed, and the merchant-only line gave no transaction
C19_AmountTwoLinesBefore ==
    /\ pdfFile.readable
    /\ pdfFile.pages = << <<"HSBC UK Bank plc", "LONDON GB 12.34 567.89", "CARD 1234",
                            "VIS TESCO STORES", "25 Jul 24 ATM CASH 50.00",
                            "Date Payment type and details Paid out Paid in Balance">> >>
    /\ pdfHsbc.called
    /\ Len(pdfHsbc.value) = 1
    /\ pdfHsbc.value[1].merchant_raw = "ATM CASH"

\* C19: the page on which a summary line stands right before the merchant-only line has
\* been parsed, and the merchant-only line took the amount of the summary line
C19_SummaryLineNotSkipped ==
    /\ pdfFile.readable
    /\ pdfFile.pages = << <<"HSBC UK Bank plc", "LONDON GB 12.34 567.89",
                            "BALANCE BROUGHT FORWARD 600.00",
                            "VIS TESCO STORES", "25 Jul 24 ATM CASH 50.00",
                            "Date Payment type and details Paid out Paid in Balance">> >>
    /\ pdfHsbc.called
    /\ Emitted(pdfHsbc.value, "VIS TESCO STORES", -60000)

\* C19: what the code does: a merchant-only continuation line is paired with line i-1
\* alone, summary line or not, and gives a transaction exactly when line i-1 ends with
\* an amount
C19_PreviousLineOnly ==
    pdfHsbc.called =>
        \A p \in 1..Len(pdfFile.pages) :
            \A i \in 0..(HsbcSearchEnd(NormalizedPage(p)) - 1) :
                (/\ MerchantOnlyLine(NormalizedPage(p), i)
                 /\ getDateForIndex(NormalizedPage(p), HsbcSearchEnd(NormalizedPage(p)), i) # NULL)
                => IF i >= 1 /\ AmountThenBalance(NormalizedPage(p)[i]).matched
                   THEN Emitted(pdfHsbc.value, Trim(StripBrackets(NormalizedPage(p)[i + 1])),
                                -pdfParseAmount(
                                    AmountThenBalance(NormalizedPage(p)[i]).amountStr).value)
                   ELSE \A k \in 1..Len(pdfHsbc.value) :
                            pdfHsbc.value[k].merchant_raw
                                # Trim(StripBrackets(NormalizedPage(p)[i + 1]))

\* a line of the page ends with two numbers, the second being this balance
EndsWithBalance(normalized, balance) ==
    /\ AmountThenBalance(normalized).matched
    /\ AmountThenBalance(normalized).two
    /\ pdfParseAmount(Slice(normalized, Len(normalized) - LastAmount(normalized) + 1,
                            Len(normalized))).value = balance

\* C20: in the HSBC strategy, whenever a line ends with two numbers the transaction
\* amount is the first of them and never the balance, on every path: a dated line
\* with its own amount, a line found by the backward search, a billing line and a
\* merchant-only continuation line.
C20_FirstOfTwoNumbers ==
    pdfHsbc.called =>
        \A p \in 1..Len(pdfFile.pages) :
            \A i \in 0..(HsbcSearchEnd(NormalizedPage(p)) - 1) :
                \A k \in 1..Len(pdfHsbc.value) :
                    ~EndsWithBalance(NormalizedPage(p)[i + 1], Abs(pdfHsbc.value[k].amount))

\* C20: the dated line "24 Jul 24 DD NETFLIX 9.99 557.90" has been parsed: the amount of
\* its transaction is the balance and the amount stays in the description
C20_DatedLineTakesBalance ==
    /\ pdfFile.readable
    /\ \E p \in 1..Len(pdfFile.pages) :
          \E i \in 1..Len(pdfFile.pages[p]) :
              pdfFile.pages[p][i] = "24 Jul 24 DD NETFLIX 9.99 557.90"
    /\ pdfHsbc.called
    /\ \E k \in 1..Len(pdfHsbc.value) :
          /\ pdfHsbc.value[k].amount = -55790
          /\ pdfHsbc.value[k].description = "DD NETFLIX 9.99"
          /\ pdfHsbc.value[k].date = "2024-07-24"

\* C20: what the code does: the balance is taken on a dated line with its own numbers
\* and on no other path
C20_BalanceOnDatedLineOnly ==
    pdfHsbc.called =>
        \A p \in 1..Len(pdfFile.pages) :
            \A i \in 0..(HsbcSearchEnd(NormalizedPage(p)) - 1) :
                \A k \in 1..Len(pdfHsbc.value) :
                    EndsWithBalance(NormalizedPage(p)[i + 1], Abs(pdfHsbc.value[k].amount))
                    => /\ HsbcDateMatch(NormalizedPage(p)[i + 1]) > 0
                       /\ pdfHsbc.value[k].date
                              = parseFlexibleDate(DateOfLine(NormalizedPage(p), i),
                                                  pdfTz, pdfNow).value

\* C12: parsePDF ends with the fatal "no transactions" error only when no strategy
\* recovers a transaction: when the strategy of the detected bank finds none in a
\* document from which the generic strategy recovers at least one, parsePDF returns a
\* statement with those transactions; and a returned statement holds at least one
\* transaction.
C12_GenericTriedBeforeFailing ==
    pdfStatement.called =>
        /\ pdfStatement.ok => Len(pdfStatement.value.transactions) >= 1
        /\ (pdfFile.readable /\ Len(parseGenericFormat(pdfFile.pages, pdfTz, pdfNow)) >= 1)
           => /\ pdfStatement.ok
              /\ \/ Len(extractTransactionsFromPDF(pdfFile.pages,
                                                   detectBankFormat(FullText(pdfFile.pages)),
                                                   pdfTz, pdfNow)) >= 1
                 \/ pdfStatement.value.transactions
                        = parseGenericFormat(pdfFile.pages, pdfTz, pdfNow)

\* C12: the document that names HSBC and holds a table in the generic layout has been
\* given to parsePDF, which threw although the generic parser reads one transaction
C12_HsbcNamedGenericTable ==
    /\ pdfFile.readable
    /\ detectBankFormat(FullText(pdfFile.pages)) = "hsbc"
    /\ Len(parseHSBCFormat(pdfFile.pages, pdfTz, pdfNow)) = 0
    /\ Len(parseGenericFormat(pdfFile.pages, pdfTz, pdfNow)) = 1
    /\ pdfStatement = Threw(NoTransactionsFound)

\* C12: what the code does: parsePDF returns exactly the transactions of the one parser
\* chosen for the detected bank, and throws when that parser finds none or the text of
\* the file cannot be extracted
C12_OneStrategyOnly ==
    pdfStatement.called =>
        IF pdfFile.readable
              /\ Len(extractTransactionsFromPDF(pdfFile.pages,
                                                detectBankFormat(FullText(pdfFile.pages)),
                                                pdfTz, pdfNow)) >= 1
        THEN /\ pdfStatement.ok
             /\ pdfStatement.value.transactions
                    = extractTransactionsFromPDF(pdfFile.pages,
                                                 detectBankFormat(FullText(pdfFile.pages)),
                                                 pdfTz, pdfNow)
             /\ Len(pdfStatement.value.transactions) >= 1
        ELSE ~pdfStatement.ok

\* C12: a statement has been returned by way of the generic parser for a document of
\* another bank
C12_ReturnedStatement ==
    /\ pdfFile.readable
    /\ detectBankFormat(FullText(pdfFile.pages)) = "barclays"
    /\ pdfStatement.called /\ pdfStatement.ok
    /\ Len(pdfStatement.value.transactions) = 1
    /\ pdfStatement.value.transactions[1].merchant_canonical = "Tesco"

(***************************************************************************)
(* Subscription status: detectSubscriptions on regular series of every     *)
(* cadence, called around one and a half expected intervals after the      *)
(* last charge.                                                            *)
(***************************************************************************)
\* days between the charges of a series: one per cadence
StatusGaps == {7, 30, 90, 365}

\* day of the last charge: mid-month, end of a month, the leap day, end of the year
StatusLastCharges ==
    {UTCDate(2024, 0, 10), UTCDate(2024, 0, 31), UTCDate(2024, 1, 29), UTCDate(2024, 11, 31)}

\* time from midnight UTC of the last charge's day to the call, in minutes, for an
\* expected interval of gap days: the same day, then 12 and 6 hours before, exactly at,
\* and 6 hours and one day after one and a half intervals
StatusDelays(gap) ==
    {0, gap * 2160 - 720, gap * 2160 - 360, gap * 2160, gap * 2160 + 360, gap * 2160 + 1440}

\* n charges of one merchant, gap days apart, the last one on the given day
StatusCharges(merchant, last, gap, n) ==
    [k \in 1..n |->
        [id |-> <<merchant, k>>,
         date |-> ToISODate(last - (n - k) * gap * MinutesPerDay),
         amount |-> -999, currency |-> "GBP", merchant_canonical |-> merchant]]

StatusInit ==
    /\ \E n \in 2..MaxCharges :
          \E gap \in StatusGaps, last \in StatusLastCharges, second \in BOOLEAN :
              /\ sTransactions =
                    StatusCharges("Netflix", last, gap, n)
                        \o (IF second THEN StatusCharges("Spotify", last - 2880, 7, 2)
                            ELSE <<>>)
              /\ sNow \in {last + delay : delay \in StatusDelays(gap)}
    /\ sTz \in {-300, 0, 60}
    /\ sSubscriptions = NotCalled

InitStatus == StatusInit /\ OthersIdle("subs")

SpecStatus == InitStatus /\ [][NextSubs]_vars

\* the expected interval of a cadence, in days
ExpectedDays(cadence) ==
    CASE cadence = "weekly" -> 7
      [] cadence = "monthly" -> 30
      [] cadence = "quarterly" -> 90
      [] cadence = "yearly" -> 365

\* minutes from midnight UTC of the subscription's last charge to the call
SinceCharge(sub) == sNow - GetTime(sub.lastCharge)

\* what the returned subscriptions have in common: a cadence, no status but active and
\* cancelled, nextDue set exactly for the active ones and later than lastCharge
StatusAndNextDue(sub) ==
    /\ sub.cadence \in {"weekly", "monthly", "quarterly", "yearly"}
    /\ sub.status \in {"active", "cancelled"}
    /\ sub.nextDue # NULL <=> sub.status = "active"
    /\ sub.nextDue # NULL => GetTime(sub.nextDue) > GetTime(sub.lastCharge)

\* C21 as stated: every Subscription returned is active exactly when the time from its
\* last charge to the call is at most one and a half expected intervals of its cadence,
\* and cancelled otherwise; nextDue is set exactly when it is active, and is then later
\* than lastCharge.
C21_ActiveWithinOneAndAHalf ==
    sSubscriptions.called =>
        \A k \in 1..Len(sSubscriptions.value) :
            /\ StatusAndNextDue(sSubscriptions.value[k])
            /\ sSubscriptions.value[k].status = "active"
                  <=> 2 * SinceCharge(sSubscriptions.value[k])
                          <= 3 * ExpectedDays(sSubscriptions.value[k].cadence) * MinutesPerDay

\* C21 amended: ... active exactly when the time from its last charge to the call,
\* rounded to the nearest whole day (halves up), is at most one and a half expected
\* intervals of its cadence, and cancelled otherwise; nextDue is set exactly when it is
\* active, and is then later than lastCharge.
C21_ActiveWithinRoundedDays ==
    sSubscriptions.called =>
        \A k \in 1..Len(sSubscriptions.value) :
            /\ StatusAndNextDue(sSubscriptions.value[k])
            /\ sSubscriptions.value[k].status = "active"
                  <=> 2 * RoundDiv(SinceCharge(sSubscriptions.value[k]), MinutesPerDay)
                          <= 3 * ExpectedDays(sSubscriptions.value[k].cadence)

\* a quarterly subscription called 135 days and 6 hours after its last charge at the end
\* of January is active, with its nextDue three months later, beside a weekly one that
\* is cancelled
C21_Witness ==
    /\ sSubscriptions.called
    /\ \E k \in 1..Len(sSubscriptions.value) :
          /\ sSubscriptions.value[k].cadence = "quarterly"
          /\ SinceCharge(sSubscriptions.value[k]) = 135 * MinutesPerDay + 360
          /\ sSubscriptions.value[k].status = "active"
          /\ sSubscriptions.value[k].lastCharge = "2024-01-31"
          /\ sSubscriptions.value[k].nextDue = "2024-05-01"
    /\ \E k \in 1..Len(sSubscriptions.value) :
          /\ sSubscriptions.value[k].cadence = "weekly"
          /\ sSubscriptions.value[k].status = "cancelled"
          /\ sSubscriptions.value[k].nextDue = NULL

(***************************************************************************)
(* Price changes: detectPriceChanges on a Subscription that                *)
(* detectSubscriptions returned.  An average is kept as the pair of the    *)
(* sum in hundredths and the number of charges.                            *)
(***************************************************************************)
\* calculateAverage(numbers) as <<sum, count>>; the average of no numbers is 0
Average(numbers) == [sum |-> Sum(numbers), count |-> Len(numbers)]

\* Math.abs(changePercent) > 5 for recentAvg of three charges and olderAvg of count
\* charges: with no older charges olderAvg is 0 and changePercent is Infinity, or NaN
\* when recentAvg is 0 as well
ChangeAbove5(recentAvg, olderAvg) ==
    IF olderAvg.count = 0 \/ olderAvg.sum = 0 THEN recentAvg.sum > 0
    ELSE 100 * Abs(recentAvg.sum * olderAvg.count - olderAvg.sum * recentAvg.count)
             > 5 * olderAvg.sum * recentAvg.count

NoChange == [hasChanged |-> FALSE]

\* detectPriceChanges(subscription); changePercent is left out of the result
detectPriceChanges(subscription) ==
    IF Len(subscription.transactions) < 3 THEN NoChange
    ELSE Let(SortByDate(subscription.transactions), LAMBDA sorted :
         Let(Average([i \in 1..3 |-> Abs(sorted[Len(sorted) - 3 + i].amount)]),
             LAMBDA recentAvg :
         Let(Average([i \in 1..(Len(sorted) - 3) |-> Abs(sorted[i].amount)]),
             LAMBDA olderAvg :
                IF ChangeAbove5(recentAvg, olderAvg)
                THEN [hasChanged |-> TRUE, oldAmount |-> olderAvg, newAmount |-> recentAvg]
                ELSE NoChange)))

MaxPriceCharges == 5

\* the amounts charged: a base price, 4 percent more, 10 percent more
PriceAmounts == {-1000, -1040, -1100}

\* monthly charges of one merchant with the given amounts
PriceCharges(amounts) ==
    [k \in 1..Len(amounts) |->
        [id |-> <<"p", k>>,
         date |-> ToISODate(FirstCharge + (k - 1) * 30 * MinutesPerDay),
         amount |-> amounts[k], currency |-> "GBP", merchant_canonical |-> "Netflix"]]

\* the lists of 2 to max amounts
PriceAmountLists(max) == UNION {[1..n -> PriceAmounts] : n \in 2..max}

\* what detectSubscriptions returns for such charges, called a day after the last one
PriceDetected(amounts) ==
    detectSubscriptions(PriceCharges(amounts),
                        FirstCharge + (Len(amounts) * 30 - 29) * MinutesPerDay, 0)

\* the Subscriptions returned for the series of up to max charges
PriceSubscriptions(max) ==
    UNION { Let(PriceDetected(amounts),
                LAMBDA detected : {detected[k] : k \in 1..Len(detected)}) :
            amounts \in PriceAmountLists(max) }

PriceInit ==
    /\ pSubscription \in PriceSubscriptions(MaxPriceCharges)
    /\ pChange = NotCalled

DetectPriceChanges ==
    /\ pChange = NotCalled
    /\ pChange' = Returned(detectPriceChanges(pSubscription))
    /\ UNCHANGED pSubscription
    /\ Frame("price")

InitPrice == PriceInit /\ OthersIdle("price")

NextPrice == DetectPriceChanges

SpecPrice == InitPrice /\ [][NextPrice]_vars

\* the absolute amounts of the subscription's charges, oldest first
ChargedAmounts ==
    Let(SortByDate(pSubscription.transactions),
        LAMBDA sorted : [i \in 1..Len(sorted) |-> Abs(sorted[i].amount)])

SameAmounts ==
    Let(ChargedAmounts, LAMBDA amounts : \A i \in 1..Len(amounts) : amounts[i] = amounts[1])

\* the average of the last three charges differs from the average of the charges before
\* them by more than 5 percent of the latter; there must be charges before them
RecentDiffersFromPrior ==
    Let(ChargedAmounts, LAMBDA amounts :
        /\ Len(amounts) > 3
        /\ 100 * Abs(Sum(SubSeq(amounts, Len(amounts) - 2, Len(amounts))) * (Len(amounts) - 3)
                     - 3 * Sum(SubSeq(amounts, 1, Len(amounts) - 3)))
               > 15 * Sum(SubSeq(amounts, 1, Len(amounts) - 3)))

\* C22: detectPriceChanges flags a change only when the subscription has at least 3
\* charges and the average of the most recent 3 differs from the average of all prior
\* charges by more than 5 percent of the prior average; for a subscription whose charges
\* all have the same absolute amount, exactly 3 charges included, hasChanged is false.
C22_FlagsOnlyRealChanges ==
    pChange.called =>
        /\ pChange.value.hasChanged
              => Len(pSubscription.transactions) >= 3 /\ RecentDiffersFromPrior
        /\ SameAmounts => ~pChange.value.hasChanged

\* C22: a subscription of exactly three charges of 10.00 has been examined and a change
\* from 0 to 10.00 is flagged
C22_ThreeEqualCharges ==
    /\ pSubscription.merchant # NULL
    /\ ChargedAmounts = <<1000, 1000, 1000>>
    /\ pChange = Returned([hasChanged |-> TRUE, oldAmount |-> [sum |-> 0, count |-> 0],
                           newAmount |-> [sum |-> 3000, count |-> 3]])

\* C22: what the code does: with exactly three charges a change is always flagged; with
\* more it is flagged exactly when the two averages differ by more than 5 percent; with
\* fewer never
C22_ThreeChargesAlwaysFlagged ==
    pChange.called =>
        pChange.value.hasChanged
            <=> \/ Len(pSubscription.transactions) = 3
                \/ RecentDiffersFromPrior

\* C22: a rise of 10 percent after two charges at the base price has been flagged, and
\* the averages are those of the charges before and of the last three
C22_RiseFlagged ==
    /\ pSubscription.merchant # NULL
    /\ ChargedAmounts = <<1000, 1000, 1100, 1100, 1100>>
    /\ pChange = Returned([hasChanged |-> TRUE, oldAmount |-> [sum |-> 2000, count |-> 2],
                           newAmount |-> [sum |-> 3300, count |-> 3]])

(***************************************************************************)
(* The ATM/cash rule of the edge-case stage.                               *)
(***************************************************************************)
\* the six keywords of the stated rule
StatedCashKeywords == <<"atm", "cash", "withdrawal", "dispense", "cashpoint", "cash machine">>

\* the lowercased canonical merchant or description contains one of the patterns
MentionsOneOf(patterns, transaction) ==
    \/ Some(patterns, ToLowerCase(transaction.merchant_canonical))
    \/ Some(patterns, ToLowerCase(transaction.description))

IsCashWithdrawal(edge) ==
    edge.matched /\ edge.category = "Cash" /\ edge.subcategory = "ATM Withdrawal"

\* C23: the ATM/cash rule fires if and only if the lowercased canonical merchant or
\* description contains one of atm, cash, withdrawal, dispense, cashpoint, cash machine;
\* a transaction containing none of the six (one containing only "link", say) is never
\* classified Cash / ATM Withdrawal by the edge-case stage.
C23_SixCashKeywords ==
    cEdge # NotCalled =>
        (IsCashWithdrawal(cEdge) <=> MentionsOneOf(StatedCashKeywords, cTxn))

\* C23: a transaction whose description holds "link" inside "Linkedin" and none of the
\* six keywords has been given to the edge-case stage and came back as an ATM withdrawal
C23_LinkedinIsCash ==
    /\ cTxn # NoTransaction
    /\ cTxn.description = "Linkedin job advert"
    /\ cTxn.merchant_canonical = "Netflix"
    /\ ~MentionsOneOf(StatedCashKeywords, cTxn)
    /\ cEdge = EdgeCase("Cash", "ATM Withdrawal", 95, "ATM cash withdrawal")

\* C23: what the code does: the rule fires exactly on the six keywords and "link"
C23_SevenCashKeywords ==
    cEdge # NotCalled =>
        (IsCashWithdrawal(cEdge)
            <=> MentionsOneOf(StatedCashKeywords \o <<"link">>, cTxn))

\* C23: the rule has fired on one of the six keywords
C23_CashKeywordFires ==
    /\ cTxn # NoTransaction
    /\ cTxn.description = "ATM CASH WITHDRAWAL"
    /\ cEdge = EdgeCase("Cash", "ATM Withdrawal", 95, "ATM cash withdrawal")

(***************************************************************************)
(* The cadence of the returned subscriptions.                              *)
(***************************************************************************)
\* the tolerance of a cadence, in days
ToleranceDays(cadence) ==
    CASE cadence = "weekly" -> 3
      [] cadence = "monthly" -> 5
      [] cadence = "quarterly" -> 10
      [] cadence = "yearly" -> 15

\* days from the first to the last charge of a subscription: the sum of its gaps
SpanDays(sub) ==
    (GetTime(sub.transactions[Len(sub.transactions)].date) - GetTime(sub.transactions[1].date))
        \div MinutesPerDay

\* the average gap of the subscription is within the tolerance of the expected interval
GapWithinTolerance(sub) ==
    Abs(SpanDays(sub) - ExpectedDays(sub.cadence) * (Len(sub.transactions) - 1))
        <= ToleranceDays(sub.cadence) * (Len(sub.transactions) - 1)

\* C24: every Subscription returned by detectSubscriptions has an average gap within
\* the tolerance of its cadence's expected interval (7 +/- 3, 30 +/- 5, 90 +/- 10,
\* 365 +/- 15 days) and a confidence in [0.5, 0.95]; a merchant charged at regular gaps
\* outside every band, every 14 days say, is not reported.
C24_GapWithinTolerance ==
    sSubscriptions.called =>
        \A k \in 1..Len(sSubscriptions.value) :
            /\ GapWithinTolerance(sSubscriptions.value[k])
            /\ sSubscriptions.value[k].confidence >= 500
            /\ sSubscriptions.value[k].confidence <= 950

\* C24: three charges 14 days apart have been reported as a monthly subscription with
\* confidence 0.6
C24_FortnightlyIsMonthly ==
    /\ sSubscriptions.called
    /\ \E k \in 1..Len(sSubscriptions.value) :
          /\ sSubscriptions.value[k].merchant = "Netflix"
          /\ Len(sSubscriptions.value[k].transactions) = 3
          /\ \A i \in 1..2 :
                GetTime(sSubscriptions.value[k].transactions[i + 1].date)
                    - GetTime(sSubscriptions.value[k].transactions[i].date)
                    = 14 * MinutesPerDay
          /\ sSubscriptions.value[k].cadence = "monthly"
          /\ sSubscriptions.value[k].confidence = 600

\* C24: what the code does: the cadence is the bucket of the average gap (up to 10, 40,
\* 100 days, or more), whatever the distance to the expected interval, and the
\* confidence is in [0.5, 0.95]
C24_BucketOfAverage ==
    sSubscriptions.called =>
        \A k \in 1..Len(sSubscriptions.value) :
            /\ sSubscriptions.value[k].cadence
                  = CadenceOf(SpanDays(sSubscriptions.value[k]),
                              Len(sSubscriptions.value[k].transactions) - 1)[1]
            /\ sSubscriptions.value[k].confidence >= 500
            /\ sSubscriptions.value[k].confidence <= 950

(***************************************************************************)
(* Batch classification: one call of categorizeTransactions.  A round of   *)
(* the loop is two steps, the try block that awaits categorizeTransaction  *)
(* and pushes, and the call of onProgress.                                 *)
(***************************************************************************)
MaxBatch == 3

BatchInit ==
    /\ \E n \in 0..MaxBatch :
          \E pick \in [1..n -> 1..Len(LedgerEntries)] :
              batchInput = [i \in 1..n |-> LedgerTransactionAt(i, LedgerEntries[pick[i]])]
    /\ batchCallback \in BOOLEAN
    /\ batchCategorized = <<>>
    /\ batchIndex = 0
    /\ batchProgress = <<>>
    /\ batchPc = "try"

\* try { result = await categorizeTransaction(transaction); categorized.push(...) }
\* catch { categorized.push(...) }
BatchTry ==
    /\ batchPc = "try" /\ batchIndex < Len(batchInput)
    /\ batchCategorized' = Append(batchCategorized, CategorizedRecord(batchInput[batchIndex + 1]))
    /\ batchPc' = "progress"
    /\ UNCHANGED <<batchInput, batchCallback, batchIndex, batchProgress>>
    /\ Frame("batch")

\* if (onProgress) onProgress(i + 1, transactions.length); i++
BatchProgress ==
    /\ batchPc = "progress"
    /\ batchProgress' = IF batchCallback
                        THEN Append(batchProgress,
                                    ProgressArguments(batchIndex, Len(batchInput)))
                        ELSE batchProgress
    /\ batchIndex' = batchIndex + 1
    /\ batchPc' = "try"
    /\ UNCHANGED <<batchInput, batchCallback, batchCategorized>>
    /\ Frame("batch")

\* return categorized
BatchReturn ==
    /\ batchPc = "try" /\ batchIndex >= Len(batchInput)
    /\ batchPc' = "returned"
    /\ UNCHANGED <<batchInput, batchCallback, batchCategorized, batchIndex, batchProgress>>
    /\ Frame("batch")

InitBatch == BatchInit /\ OthersIdle("batch")

NextBatch == BatchTry \/ BatchProgress \/ BatchReturn

SpecBatch == InitBatch /\ [][NextBatch]_vars

\* record k of the categorized array is what classifying record k of the input alone
\* gives: the same id and fields, with the classification, or with Unknown, 0 and
\* "Categorization failed" when the classification throws
ClassifiedAlone(k) ==
    /\ batchCategorized[k].id = batchInput[k].id
    /\ batchCategorized[k].merchant_raw = batchInput[k].merchant_raw
    /\ batchCategorized[k].merchant_canonical = batchInput[k].merchant_canonical
    /\ batchCategorized[k].description = batchInput[k].description
    /\ batchCategorized[k].amount = batchInput[k].amount
    /\ IF lookupMerchant(batchInput[k].merchant_raw) = NoMetadata
          /\ batchInput[k].merchant_canonical = NULL
       THEN /\ batchCategorized[k].category = "Unknown"
            /\ batchCategorized[k].confidence = 0
            /\ batchCategorized[k].notes = "Categorization failed"
       ELSE Let(categorizeTransaction(batchInput[k]),
                LAMBDA result :
                    /\ batchCategorized[k].category = result.category
                    /\ batchCategorized[k].subcategory = result.subcategory
                    /\ batchCategorized[k].confidence = result.confidence
                    /\ batchCategorized[k].notes = result.notes)

\* the state of a call: the records appended so far are those of the input in order,
\* the callback has been called with (1, n), (2, n), ... in order, never ahead of the
\* appended records, and at the return there are n records and, with a callback, n calls
BatchInOrder ==
    /\ Len(batchCategorized) <= Len(batchInput)
    /\ \A k \in 1..Len(batchCategorized) : ClassifiedAlone(k)
    /\ Len(batchProgress) <= Len(batchCategorized)
    /\ Len(batchCategorized) <= Len(batchProgress) + 1 \/ ~batchCallback
    /\ \A k \in 1..Len(batchProgress) : batchProgress[k] = <<k, Len(batchInput)>>
    /\ batchPc = "returned"
          => /\ Len(batchCategorized) = Len(batchInput)
             /\ Len(batchProgress) = IF batchCallback THEN Len(batchInput) ELSE 0

\* C25: categorizeTransactions processes the records independently and in order: it
\* returns n transactions with the ids of the input in the same order, a record whose
\* classification throws becomes Unknown / 0 / "Categorization failed" without
\* affecting another, the input is not modified, and the callback is called exactly n
\* times with (1, n), ..., (n, n) in that order, each after its record was appended.
C25_BatchInOrder == [] BatchInOrder /\ [][batchInput' = batchInput]_vars

\* a call with a callback has returned three records, the second being the record of
\* the catch branch between two classified ones, after three calls of the callback
C25_Witness ==
    /\ batchPc = "returned" /\ batchCallback
    /\ Len(batchCategorized) = 3
    /\ batchCategorized[1].category = "Food"
    /\ batchCategorized[2].notes = "Categorization failed"
    /\ batchCategorized[2].confidence = 0
    /\ batchCategorized[3].category = "Transfers"
    /\ batchProgress = <<<<1, 3>>, <<2, 3>>, <<3, 3>>>>

(***************************************************************************)
(* Short merchant strings: a description cell that is empty, or that       *)
(* cleanMerchantName reduces to nothing or to a letter or two, handed to   *)
(* getCanonicalName (parseCSVRow), lookupMerchant and categorizeTransaction.*)
(***************************************************************************)
\* description cells: empty or blank ones, ones made of what cleanMerchantName strips,
\* fragments of one to three characters, and two ordinary ones
ResolveSamples ==
    {"", "   ", "-", "***", "POS", "card payment", "www.", "payment to", ".com",
     "x", "e", "a", "o", "q", "7", "12", "TV", "ee", "fc", "ab", "zz", "Ltd", "The",
     "TESCO STORES 1234", "Zed Wines"}

ResolveInit ==
    /\ rRaw \in ResolveSamples
    /\ rCanonical = NULL
    /\ rMetadata = NotCalled
    /\ rCategorized = NotCalled

\* const merchant_canonical = getCanonicalName(merchant_raw)
GetCanonicalName ==
    /\ rRaw # NULL /\ rCanonical = NULL
    /\ rCanonical' = getCanonicalName(rRaw)
    /\ UNCHANGED <<rRaw, rMetadata, rCategorized>>
    /\ Frame("resolve")

LookupMerchant ==
    /\ rRaw # NULL /\ rMetadata = NotCalled
    /\ rMetadata' = Returned(lookupMerchant(rRaw))
    /\ UNCHANGED <<rRaw, rCanonical, rCategorized>>
    /\ Frame("resolve")

\* categorizeTransaction on the transaction parseCSVRow builds from the row
CategorizeRow ==
    /\ rRaw # NULL /\ rCategorized = NotCalled
    /\ rCategorized' =
          Returned(categorizeTransaction(
              LedgerTransaction(1, rRaw, getCanonicalName(rRaw), rRaw, -1250)))
    /\ UNCHANGED <<rRaw, rCanonical, rMetadata>>
    /\ Frame("resolve")

InitResolve == ResolveInit /\ OthersIdle("resolve")

NextResolve == GetCanonicalName \/ LookupMerchant \/ CategorizeRow

SpecResolve == InitResolve /\ [][NextResolve]_vars

\* the length of the shortest key of the merchant table
ShortestKey ==
    CHOOSE n \in {Len(KNOWN_MERCHANTS[k].key) : k \in MerchantIndex} :
        \A k \in MerchantIndex : n <= Len(KNOWN_MERCHANTS[k].key)

\* the raw string cleans to the empty string or to less than the shortest table key
CleansToFragment(raw) ==
    Let(cleanMerchantName(raw), LAMBDA cleaned : Len(cleaned) < ShortestKey)

\* none of the calls made so far resolved the string to a table entry
Unresolved ==
    /\ rCanonical # NULL => rCanonical = toTitleCase(cleanMerchantName(rRaw))
    /\ rMetadata # NotCalled => rMetadata.value = NoMetadata
    /\ rCategorized # NotCalled => rCategorized.value.method # "known_merchant"

\* C26 (as stated): a raw merchant string that cleans to the empty string or to a
\* fragment shorter than every table key is not resolved to a known merchant:
\* getCanonicalName returns the title-cased cleaned string, lookupMerchant returns
\* null, and the known-merchant stage never classifies the transaction.
C26_FragmentUnresolved ==
    (rRaw # NULL /\ CleansToFragment(rRaw)) => Unresolved

\* an empty description cell has been resolved to the first entry of the table by all
\* three calls
C26_EmptyIsTesco ==
    /\ rRaw = ""
    /\ rCanonical = "Tesco"
    /\ rMetadata = Returned(KNOWN_MERCHANTS[1])
    /\ rCategorized # NotCalled
    /\ rCategorized.value.method = "known_merchant"
    /\ rCategorized.value.category = "Food"

\* some key or alias of the table contains the cleaned string
ContainedInTable(cleaned) ==
    \E k \in MerchantIndex :
        \/ Includes(KnownKeys[k], cleaned)
        \/ \E a \in 1..Len(AliasKeys[k]) : Includes(AliasKeys[k][a], MerchantKeyOf(cleaned))

\* C26 (what the code does): such a string is left unresolved only when no key and no
\* alias of the table contains it; the empty string, which every key and alias
\* contains, resolves to the first entry of the table.
C26_ContainedFragmentResolves ==
    (rRaw # NULL /\ CleansToFragment(rRaw))
        => /\ Unresolved <=> ~ContainedInTable(cleanMerchantName(rRaw))
                                \/ (rCanonical = NULL /\ rMetadata = NotCalled
                                    /\ rCategorized = NotCalled)
           /\ (cleanMerchantName(rRaw) = "" /\ rCanonical # NULL)
                 => rCanonical = KNOWN_MERCHANTS[1].canonical_name

(***************************************************************************)
(* One scan of an HSBC page on which amount lines, merchant-only lines and *)
(* dated lines without an amount follow one another.                       *)
(***************************************************************************)
MaxScan == 3

\* a location with the amount and the running balance, a merchant-only line, a dated
\* line without an amount, a line without an amount
ScanLines ==
    {"LONDON GB 12.34 567.89", "VIS TESCO STORES", "23 Jul 24 ))) COSTA COFFEE", "CARD 1234"}

ScanPages(max) ==
    { <<"HSBC UK Bank plc">> \o body
          \o <<"25 Jul 24 ATM CASH 50.00",
               "Date Payment type and details Paid out Paid in Balance">> :
        body \in UNION {[1..n -> ScanLines] : n \in 1..max} }

ScanInit ==
    /\ pdfFile \in {[readable |-> TRUE, pages |-> <<page>>] : page \in ScanPages(MaxScan)}
    /\ pdfTz = 0
    /\ pdfNow = UTCDate(2024, 9, 15) + 600
    /\ pdfStatement = NotCalled /\ pdfHsbc = NotCalled /\ pdfGeneric = NotCalled

InitScan == ScanInit /\ OthersIdle("pdf")

SpecScan == InitScan /\ [][NextPdf]_vars

\* the amounts (first of the trailing numbers) the lines of page p end with
LineAmounts(p) ==
    Let(NormalizedPage(p),
        LAMBDA norm :
            [i \in {j \in 1..Len(norm) : AmountThenBalance(norm[j]).matched} |->
                pdfParseAmount(AmountThenBalance(norm[i]).amountStr).value])

\* how many lines of page p end with this amount
LinesWith(p, amount) ==
    Let(LineAmounts(p),
        LAMBDA amounts : Cardinality({i \in DOMAIN amounts : amounts[i] = amount}))

\* how many transactions of the result carry this amount as paid out
EmittedWith(result, amount) ==
    Cardinality({k \in 1..Len(result) : result[k].amount = -amount})

\* no amount is emitted more than times as often as lines of the page carry it
EmittedAtMost(times) ==
    pdfHsbc.called =>
        \A amount \in {LineAmounts(1)[i] : i \in DOMAIN LineAmounts(1)} :
            EmittedWith(pdfHsbc.value, amount) <= times * LinesWith(1, amount)

\* C27 (as stated): over one scan of a page each amount-bearing line contributes its
\* amount to at most one emitted transaction: no amount is emitted more often than
\* lines of the page carry it (no line's amount goes both to the merchant-only line
\* after it and to a later dated line's backward search).
C27_AmountUsedOnce == EmittedAtMost(1)

\* the page with one amount line, a merchant-only line and a dated line without an
\* amount has been scanned: the amount 12.34 went to both
C27_AmountUsedTwice ==
    /\ pdfFile.readable
    /\ pdfFile.pages = << <<"HSBC UK Bank plc", "LONDON GB 12.34 567.89", "VIS TESCO STORES",
                            "23 Jul 24 ))) COSTA COFFEE", "25 Jul 24 ATM CASH 50.00",
                            "Date Payment type and details Paid out Paid in Balance">> >>
    /\ pdfHsbc.called
    /\ Len(pdfHsbc.value) = 3
    /\ Emitted(pdfHsbc.value, "VIS TESCO STORES", -1234)
    /\ Emitted(pdfHsbc.value, "COSTA COFFEE (LONDON GB)", -1234)

\* C27 (what the code does): a line's amount goes to at most two transactions, the
\* merchant-only line right after it and the first dated line without an amount whose
\* backward search reaches it.
C27_AmountUsedAtMostTwice == EmittedAtMost(2)

(***************************************************************************)
(* Roles of the detected mapping that share a header.                      *)
(***************************************************************************)
MappingRoles == {"date", "description", "amount", "debit", "credit", "currency", "balance"}

\* two different roles of the mapping name the same header
SharedHeader(mapping, first, second) ==
    first # second /\ mapping[first] # NULL /\ mapping[first] = mapping[second]

\* C28 (as stated): detectColumnMapping never assigns the same header to two different
\* roles: the headers chosen for date, description, amount, debit, credit, currency and
\* balance are pairwise distinct.
C28_RolesDistinct ==
    hMapping # NotCalled =>
        \A first \in MappingRoles, second \in MappingRoles :
            ~SharedHeader(hMapping.value, first, second)

\* the headers "Transaction Date", "Narrative", "Amount" have been mapped, and the
\* description role names the date column
C28_DescriptionIsDateColumn ==
    /\ hMapping # NotCalled
    /\ hHeaders = <<"Transaction Date", "Narrative", "Amount">>
    /\ hMapping.value.date = "Transaction Date"
    /\ hMapping.value.description = "Transaction Date"
    /\ hMapping.value.amount = "Amount"

\* C28 (what the code does): every role searches all headers on its own; on the header
\* rows of the specification two roles share a header only when one of them is the
\* description and the header contains its pattern "transaction".
C28_SharedThroughTransaction ==
    hMapping # NotCalled =>
        \A first \in MappingRoles, second \in MappingRoles :
            SharedHeader(hMapping.value, first, second)
                => /\ "description" \in {first, second}
                   /\ Includes(ToLowerCase(hMapping.value[first]), "transaction")

(***************************************************************************)
(* Rendered-document lines that begin with a day, a month name and a year.  *)
(***************************************************************************)
\* the line begins with a day of one or two digits, a month name and a 4-digit year
DayMonthYearLine(line) ==
    Let(Split(line, " "),
        LAMBDA words :
            /\ Len(words) >= 5
            /\ Len(words[1]) \in 1..2 /\ \A i \in 1..Len(words[1]) : IsDigit(Char(words[1], i))
            /\ MonthIndex(ToLowerCase(Slice(words[2], 1, 3))) >= 0
            /\ Len(words[3]) = 4 /\ \A i \in 1..4 : IsDigit(Char(words[3], i)))

\* the year written on such a line
WrittenYear(line) == Split(line, " ")[3]

\* C29 (as stated): a line that begins with a day, a month name and a 4-digit year
\* followed by a description and an amount is parsed into a transaction whose date
\* carries that written year and whose description does not include the year; the
\* earlier day+month-name shape does not capture it with the year pushed into the
\* description and the current year substituted.
C29_WrittenYearKept ==
    (gTransaction.called /\ DayMonthYearLine(gLine))
        => /\ Produced(gTransaction)
           /\ Slice(gTransaction.value.date, 1, 4) = WrittenYear(gLine)
           /\ ~Includes(gTransaction.value.description, WrittenYear(gLine))

\* the line written for 1 September 2023 has been parsed in 2024: its transaction is
\* dated 2024 and its description begins with 2023
C29_YearInDescription ==
    /\ gLine = "01 Sep 2023 TESCO 12.95" /\ gTz = 0 /\ gNow = UTCDate(2024, 9, 15) + 600
    /\ gTransaction.called /\ Produced(gTransaction)
    /\ gTransaction.value.date = "2024-09-01"
    /\ gTransaction.value.description = "2023 TESCO"
    /\ gTransaction.value.merchant_raw = "2023 TESCO"
    /\ gTransaction.value.amount = 1295

\* C29 (what the code does): the first shape of the list, day and month name, matches
\* such a line: the date is the one parseFlexibleDate gives for the day and the month
\* alone (the year of the call or the one before), and the description begins with
\* the written year.
C29_FirstShapeCaptures ==
    (gTransaction.called /\ DayMonthYearLine(gLine))
        => /\ Produced(gTransaction)
           /\ Returned(gTransaction.value.date) =
                 parseFlexibleDate(Split(gLine, " ")[1] \o " " \o Split(gLine, " ")[2],
                                   gTz, gNow)
           /\ StartsWith(gTransaction.value.description, WrittenYear(gLine) \o " ")

(***************************************************************************)
(* The chat store and the page around it: loading a statement, sending a   *)
(* message (the reply is appended by a 300 ms timer), the timer firing,    *)
(* and clearing.  The page shows the upload only while isLoaded is false,  *)
(* and the chat and the Clear button only while it is true.  A message is  *)
(* its role and content (its id and timestamp are left out).               *)
(***************************************************************************)
MaxChat == 3

\* the statements a user uploads: an empty one, and expenses at a grocer
StoreStatements ==
    { <<>>,
      <<[merchant_canonical |-> "Tesco", category |-> "Food", amount |-> -450]>>,
      <<[merchant_canonical |-> "Tesco", category |-> "Food", amount |-> -450],
        [merchant_canonical |-> "Greggs", category |-> "Food", amount |-> -310]>> }

\* what the user types: each reaches one of the branches of analyzeQuery that answer
\* without an amount (subscriptions, income, help)
StoreQueries == {"hello", "Any income?", "my subscriptions"}

HelpText ==
    "I can help you analyze your spending! Try asking:\n- \"How much did I spend on Uber?\"\n- \"Give me a breakdown of my spending\"\n- \"What are my subscriptions?\"\n- \"What were my largest transactions?\"\n- \"How much income did I receive?\""

\* analyzeQuery on the queries of StoreQueries and the statements of StoreStatements
\* (none has a subscription or an income, and no query names a merchant)
analyzeQuery(query, transactions) ==
    Let(ToLowerCase(query),
        LAMBDA q :
            IF Len(transactions) = 0
            THEN "I don't have any transaction data loaded yet. Please upload your bank statement first."
            ELSE IF Includes(q, "subscription")
                    /\ \A i \in 1..Len(transactions) : transactions[i].category # "Subscriptions"
            THEN "I couldn't find any subscription transactions."
            ELSE IF (Includes(q, "income") \/ Includes(q, "earned") \/ Includes(q, "received"))
                    /\ \A i \in 1..Len(transactions) : transactions[i].amount <= 0
            THEN "I couldn't find any income transactions."
            ELSE HelpText)

\* addMessage: setMessages(prev => [...prev, message])
addMessage(messages, role, content) == Append(messages, [role |-> role, content |-> content])

StoreInit ==
    /\ storeTransactions = <<>>
    /\ storeMessages = <<>>
    /\ storeIsLoaded = FALSE
    /\ storeTimers = <<>>

\* handleFileLoaded: the upload is shown while isLoaded is false
LoadTransactions ==
    /\ ~storeIsLoaded
    /\ \E txns \in StoreStatements :
          /\ storeTransactions' = txns
          /\ storeIsLoaded' = (Len(txns) > 0)
    /\ UNCHANGED <<storeMessages, storeTimers>>
    /\ Frame("store")

\* handleSendMessage: the chat is shown while isLoaded is true
HandleSendMessage ==
    /\ storeIsLoaded
    /\ Len(storeMessages) + Len(storeTimers) < MaxChat
    /\ \E content \in StoreQueries :
          /\ storeMessages' = addMessage(storeMessages, "user", content)
          /\ storeTimers' = Append(storeTimers, analyzeQuery(content, storeTransactions))
    /\ UNCHANGED <<storeTransactions, storeIsLoaded>>
    /\ Frame("store")

\* the callback of setTimeout(() => addMessage('assistant', response), 300); timers of
\* the same delay fire in the order they were set
TimerFires ==
    /\ storeTimers # <<>>
    /\ storeMessages' = addMessage(storeMessages, "assistant", Head(storeTimers))
    /\ storeTimers' = Tail(storeTimers)
    /\ UNCHANGED <<storeTransactions, storeIsLoaded>>
    /\ Frame("store")

\* clearData: the Clear button is shown while isLoaded is true
ClearData ==
    /\ storeIsLoaded
    /\ storeTransactions' = <<>>
    /\ storeMessages' = <<>>
    /\ storeIsLoaded' = FALSE
    /\ UNCHANGED storeTimers
    /\ Frame("store")

InitStore == StoreInit /\ OthersIdle("store")

NextStore == LoadTransactions \/ HandleSendMessage \/ TimerFires \/ ClearData

SpecStore == InitStore /\ [][NextStore]_vars

\* the store as clearData leaves it
StoreCleared == storeMessages = <<>> /\ ~storeIsLoaded

\* C30 (as stated): clearing is final with respect to pending replies: once clearData
\* has run, the message list stays empty and isLoaded stays false until the next
\* loadTransactions or user send; no assistant reply scheduled before clearData is
\* appended after it.
C30_ClearingIsFinal ==
    [][(StoreCleared /\ ~LoadTransactions /\ ~HandleSendMessage)
           => (storeMessages' = <<>> /\ ~storeIsLoaded')]_vars

\* after clearData, with nothing loaded and nothing sent since, the message list holds
\* the reply to a message sent before the clearing
C30_ReplyAfterClear ==
    /\ ~storeIsLoaded /\ storeTransactions = <<>> /\ storeTimers = <<>>
    /\ storeMessages = <<[role |-> "assistant",
                          content |-> "I couldn't find any income transactions."]>>

\* C30 (what the code does): clearData leaves the running timers alone, and a timer
\* that fires appends its reply to whatever the message list is then, without
\* touching isLoaded.
C30_TimersSurviveClear ==
    /\ [][ClearData => storeTimers' = storeTimers]_vars
    /\ [][(storeTimers # <<>> /\ storeTimers' = Tail(storeTimers))
             => /\ storeMessages' = Append(storeMessages,
                                           [role |-> "assistant", content |-> Head(storeTimers)])
                /\ storeIsLoaded' = storeIsLoaded]_vars

====
